---- MODULE Spec2Model ----
(***************************************************************************)
(* Oblivion: certified secure erasure of storage media.                    *)
(*                                                                         *)
(* Seven state machines share this module.                                 *)
(*   Spec     - the certificate protocol: a WipeResult is issued as a      *)
(*              basic (v1) or enhanced (v2) certificate, the persisted     *)
(*              JSON may be edited, and CertificateVerifier checks it.     *)
(*   WipeSpec - AdvancedWipeEngine::secure_erase_with_verification: the    *)
(*              retry loop, the per-device procedures and the post-wipe    *)
(*              sampling.                                                  *)
(*   IssuanceSpec - the two issuers over a wider range of WipeResults.     *)
(*   ConcSpec - two invocations of the engine against one device path, at  *)
(*              the granularity of the start and the end of each device    *)
(*              operation.                                                 *)
(*   UtilsSpec - Utils::generate_filename against the system clock,        *)
(*              and ProgressBar.                                           *)
(*   DeviceManagerSpec - DeviceManager: a scan and the two filters.        *)
(*   CliSpec - cli::wipe_device: mode parsing, device lookup, the engine   *)
(*              and the enhanced issuer in sequence.                       *)
(*                                                                         *)
(* Modelling conventions.                                                  *)
(*   - A Rust String that holds hex (verification.hash, signature) is a    *)
(*     sequence: <<>> is "", <<"hex", x>> is hex::encode(x).               *)
(*   - Option<T> is a sequence: <<>> is None, <<x>> is Some(x).            *)
(*   - JSON text is the sequence of its leaf members <<path, value>> in    *)
(*     document order, with a flag telling compact from pretty output and  *)
(*     one telling a text that was cut off before its end.                 *)
(*   - SHA-256 and Ed25519 are ideal: the hash is injective, a signature   *)
(*     verifies exactly under the key pair that made it, over the bytes    *)
(*     that were signed.                                                   *)
(*   - The f64 speeds of a certificate are IEEE 754 binary64 values, every *)
(*     operation on them rounded as binary64 rounds it; so are the values  *)
(*     ProgressBar::display and print_result compute. verification_ratio,  *)
(*     written as 0.0 or 1.0, is the rational <<numerator, denominator>>.  *)
(***************************************************************************)
EXTENDS Integers, Sequences, FiniteSets, TLC

VARIABLES
    \* ---- certificate protocol ----
    cpc,               \* position: "start", "issued", "tampered", "verified", "idle"
    wipe_result,       \* the WipeResult handed to the issuer
    private_key_file,  \* content of the private key file; NoKey if there is no file
    certificate_data,  \* the bytes that were hashed and signed at issuance, or NoData
    json_file,         \* content of json_path: JSON bytes or NoFile
    issued_by,         \* the issuer that ran: "none", "basic" or "enhanced"
    issue_outcome,     \* what the issuer returned: "none", "Ok", or an error kind
    tamper,            \* the edit made to json_file after issuance: <<>> or <<path, value>>
    verifier,          \* the CertificateVerifier that ran, or NoVerifier
    vresult,           \* what verify_certificate returned: NoResult or a VerificationResult
    cli_result,        \* what the CLI verify command printed and returned, or NoResult
    legacy_result,     \* what the legacy certificates::verify_certificate returned, or NoResult
    \* ---- wipe engine ----
    wpc,               \* position: "loop", "running", "backoff", "succeeded", "done", "failed", "clock_error", "panicked", "idle"
    device,            \* the StorageDevice being erased
    mode,              \* the EraseMode
    engine,            \* the AdvancedWipeEngine configuration
    attempt,           \* loop variable of the retry loop
    steps,             \* low-level operations still to run in the current attempt
    ops,               \* low-level operations completed in the current attempt
    errors,            \* the errors vector of secure_erase_with_verification
    sleeps,            \* attempts after which the 5 s backoff sleep ran
    verified_sectors,  \* sectors that read as erased in verify_device_wipe (-1 before)
    outcome,           \* the value returned: NoOutcome, [ok |-> TRUE, ...] or [ok |-> FALSE, ...]
    \* ---- concurrent invocations of the engine ----
    invocation,        \* per invocation: position, attempt, plan, next operation, errors, sleeps
    in_progress,       \* per invocation: the device operations started and not yet finished
    \* ---- Utils::generate_filename ----
    clock,             \* SystemTime::now() in whole seconds since the epoch
    filenames,         \* the filenames returned so far, oldest first
    \* ---- DeviceManager, ProgressBar, CLI wipe command ----
    dm,                \* the DeviceManager: devices and last_scan
    dm_result,         \* what the last query of the DeviceManager returned, or NoResult
    progress,          \* the ProgressBar: total, current, and whether a call panicked
    wipe_cli           \* the CLI wipe command: its arguments, position and exit, or NoResult

cvars == <<cpc, wipe_result, private_key_file, certificate_data, json_file,
           issued_by, issue_outcome, tamper, verifier, vresult, cli_result,
           legacy_result>>
wvars == <<wpc, device, mode, engine, attempt, steps, ops, errors, sleeps,
           verified_sectors, outcome>>
xvars == <<invocation, in_progress>>
uvars == <<clock, filenames>>
dvars == <<dm, dm_result>>
vars == <<cvars, wvars, xvars, uvars, dvars, progress, wipe_cli>>

-----------------------------------------------------------------------------
(* Shared vocabulary: src/src/core/mod.rs                                  *)

DeviceTypes == {"HDD", "SSD", "NVMe", "USB", "Unknown"}
EraseModes == {"Quick", "Full", "Advanced"}

\* Absent values. They are records so that they compare with the records they stand in for.
NoKey == "NoKey"
NoFile == [missing |-> TRUE]
NoData == [missing |-> TRUE]
NoVerifier == [pending |-> TRUE]
NoResult == [pending |-> TRUE]
NoDevice == [pending |-> TRUE]
NoEngine == [pending |-> TRUE]
NoOutcome == [pending |-> TRUE]

\* The variables of the concurrent invocations and of generate_filename while neither runs.
ConcIdle ==
    /\ invocation = <<>>
    /\ in_progress = <<>>

UtilsIdle ==
    /\ clock = 0
    /\ filenames = <<>>

\* The DeviceManager, the ProgressBar and the CLI wipe command while none is in use.
LibraryIdle ==
    /\ dm = NoResult
    /\ dm_result = NoResult
    /\ progress = NoResult
    /\ wipe_cli = NoResult

RECURSIVE GCD(_, _)
GCD(a, b) == IF b = 0 THEN a ELSE GCD(b, a % b)

\* An f64 as an exact rational in lowest terms.
Rat(n, d) == IF n = 0 THEN <<0, 1>> ELSE LET g == GCD(n, d) IN <<n \div g, d \div g>>

(* A u64 byte count is a pair <<g, r>> standing for g * 2^30 + r with       *)
(* 0 <= r < 2^30: the sizes the code compares against (512 bytes, 2 TiB)   *)
(* do not fit one 32-bit integer of the checker together.                  *)

Bytes(g, r) == <<g, r>>

\* size / 512 == 0, the divisor of the sampled sector offset.
SectorCountIsZero(size) == size[1] = 0 /\ size[2] < 512

\* size / (1024 * 1024 * 1024)
WholeGiB(size) == size[1]

\* bytes / 512 / seconds in u64 arithmetic, for seconds > 0:
\* floor((g * 2^21 + q) / d) with q = r / 512 < 2^21.
SectorsPerSecond(bytes, seconds) ==
    LET q == bytes[2] \div 512
    IN bytes[1] * (2097152 \div seconds)
       + ((bytes[1] * (2097152 % seconds)) + q) \div seconds

-----------------------------------------------------------------------------
(* f64 arithmetic as the code's expressions compute it: IEEE 754 binary64,  *)
(* each result the exact quotient or product rounded to 53 significant      *)
(* bits, ties to even. A number of more than 31 bits is the sequence of its *)
(* digits in base 2^15, lowest first; a positive float is [m, e] for        *)
(* m / 2^e with 2^52 <= m < 2^53.                                          *)

RECURSIVE Pow2(_)
Pow2(n) == IF n = 0 THEN 1 ELSE 2 * Pow2(n - 1)

LimbBase == Pow2(15)

RECURSIVE Norm(_)
Norm(x) == IF x # <<>> /\ x[Len(x)] = 0 THEN Norm(SubSeq(x, 1, Len(x) - 1)) ELSE x

Digit(t, rest) == <<t % LimbBase>> \o rest

RECURSIVE Mul(_, _, _)
\* x * k + carry
Mul(x, k, carry) ==
    IF x = <<>> THEN (IF carry = 0 THEN <<>> ELSE <<carry>>)
    ELSE Digit(Head(x) * k + carry, Mul(Tail(x), k, (Head(x) * k + carry) \div LimbBase))

DivStep(cur, q, d) == [q |-> <<cur \div d>> \o q, r |-> cur % d]

DivHigh(hi, low, d) == DivStep(hi.r * LimbBase + low, hi.q, d)

RECURSIVE Div(_, _)
\* quotient and remainder of x by d, 0 < d <= 2^15
Div(x, d) ==
    IF x = <<>> THEN [q |-> <<>>, r |-> 0]
    ELSE DivHigh(Div(Tail(x), d), Head(x), d)

RECURSIVE Inc(_)
Inc(x) == IF x = <<>> THEN <<1>>
          ELSE IF Head(x) + 1 < LimbBase THEN <<Head(x) + 1>> \o Tail(x)
          ELSE <<0>> \o Inc(Tail(x))

Big(n) == Norm(<<n % LimbBase, (n \div LimbBase) % LimbBase, n \div (LimbBase * LimbBase)>>)

\* The value of a number below 2^30.
Small(x) == IF x = <<>> THEN 0 ELSE IF Len(x) = 1 THEN x[1] ELSE x[1] + LimbBase * x[2]

BitLen(x) == IF x = <<>> THEN 0
             ELSE 15 * (Len(x) - 1)
                  + (CHOOSE b \in 1..15 : Pow2(b - 1) <= x[Len(x)] /\ x[Len(x)] < Pow2(b))

ShrLow(low, x, limbs) ==
    [q |-> Norm(low.q), sticky |-> low.r # 0 \/ \E a \in 1..limbs : x[a] # 0]

ShrLimbs(x, n, limbs) ==
    ShrLow(Div(SubSeq(x, limbs + 1, Len(x)), Pow2(n % 15)), x, limbs)

\* x shifted right by n bits, and whether a bit that was shifted out was set.
Shr(x, n) == ShrLimbs(x, n, IF n \div 15 < Len(x) THEN n \div 15 ELSE Len(x))

Odd(x) == x # <<>> /\ x[1] % 2 = 1

\* A mantissa rounded up to 2^53 is halved.
Renormalise(m, e) ==
    IF BitLen(m) = 54 THEN [m |-> Norm(Div(m, 2).q), e |-> e - 1]
    ELSE [m |-> m, e |-> e]

\* `cut` holds one bit more than the result: that bit set rounds up if a lower bit, the
\* remainder r or the bit above it is set too.
RoundUp(cut, r, kept) ==
    IF Odd(cut.q) /\ (cut.sticky \/ r # 0 \/ Odd(kept)) THEN Inc(kept) ELSE kept

Nearest(cut, r, e) == Renormalise(RoundUp(cut, r, Norm(Div(cut.q, 2).q)), e)

Cut(q, r, e, drop) == Nearest(Shr(q, drop), r, 75 + e - drop - 1)

Quotient(quot, e) == Cut(Norm(quot.q), quot.r, e, BitLen(Norm(quot.q)) - 54)

\* The float nearest to num / (den * 2^e), for num > 0 and 0 < den <= 2^15: the quotient
\* of num * 2^75 is cut to 54 bits, the last of them deciding the rounding.
Round(num, den, e) == Quotient(Div(<<0, 0, 0, 0, 0>> \o num, den), e)

\* n as f64 / d as f64, x * k as f64 and x / k as f64 for positive integers and floats.
F64(n, d) == Round(Big(n), d, 0)
F64Times(x, k) == Round(Mul(x.m, k, 0), 1, x.e)
F64Over(x, k) == Round(x.m, k, x.e)

\* The integer nearest to the float x, ties to even, for x below 2^30.
NearestWhole(cut) == Small(RoundUp(cut, 0, Norm(Div(cut.q, 2).q)))

\* 0.0
F64Zero == [m |-> <<>>, e |-> 0]

RECURSIVE Less(_, _)
\* x < y, for two numbers without leading zero limbs or of one length
Less(x, y) ==
    IF Len(x) # Len(y) THEN Len(x) < Len(y)
    ELSE IF x = <<>> THEN FALSE
    ELSE IF x[Len(x)] # y[Len(y)] THEN x[Len(x)] < y[Len(y)]
    ELSE Less(SubSeq(x, 1, Len(x) - 1), SubSeq(y, 1, Len(y) - 1))

RECURSIVE Sub(_, _, _)

SubDigit(t, x, y) == Digit(t + LimbBase, Sub(x, y, IF t < 0 THEN 1 ELSE 0))

\* x - y - borrow, for x >= y + borrow
Sub(x, y, borrow) ==
    IF x = <<>> THEN <<>>
    ELSE SubDigit(Head(x) - (IF y = <<>> THEN 0 ELSE Head(y)) - borrow,
                  Tail(x), IF y = <<>> THEN <<>> ELSE Tail(y))

\* cur - d * t, and the digit t put before the quotient q.
LongDivDigit(cur, q, d, t) ==
    [q |-> <<t>> \o q, r |-> Norm(Sub(cur, Norm(Mul(d, t, 0)), 0))]

\* The digit is the estimate or up to two below it: the largest whose product with d
\* does not exceed cur.
LongDivCorrect(cur, q, d, estimate) ==
    LongDivDigit(cur, q, d,
                 IF ~Less(cur, Norm(Mul(d, estimate, 0))) THEN estimate
                 ELSE IF ~Less(cur, Norm(Mul(d, estimate - 1, 0))) THEN estimate - 1
                 ELSE estimate - 2)

\* The estimate of a digit from the two highest limbs of cur over the highest of d.
LongDivEstimate(cur, q, d, top) ==
    LongDivCorrect(cur, q, d,
                   IF top \div d[Len(d)] < LimbBase THEN top \div d[Len(d)]
                   ELSE LimbBase - 1)

LongDivStep(cur, padded, q, d) ==
    LongDivEstimate(cur, q, d, padded[Len(d) + 1] * LimbBase + padded[Len(d)])

LongDivCur(cur, q, d) == LongDivStep(cur, cur \o [i \in 1..(Len(d) + 1) |-> 0], q, d)

\* The next digit of the quotient, 0 while nothing has been left to divide.
LongDivHigh(hi, low, d) ==
    IF hi.r = <<>> /\ low = 0 THEN [q |-> <<0>> \o hi.q, r |-> <<>>]
    ELSE LongDivCur(Norm(<<low>> \o hi.r), hi.q, d)

RECURSIVE LongDiv(_, _)
\* quotient and remainder of x by d, for d without leading zero limb whose highest limb
\* is 2^14 or more
LongDiv(x, d) ==
    IF x = <<>> \/ d = <<>> THEN [q |-> <<>>, r |-> x]
    ELSE LongDivHigh(LongDiv(Tail(x), d), Head(x), d)

Inexact(qr) == [q |-> qr.q, r |-> IF qr.r = <<>> THEN 0 ELSE 1]

\* x / y as f64 for x at least 0.0 and y above 0.0: 0.0 for x = 0.0; else both mantissas
\* are taken times 2^7, so that the divisor fills four limbs, and the quotient, to 60
\* bits after the point, is rounded like any other quotient.
F64Quot(x, y) ==
    IF x = F64Zero \/ y = F64Zero THEN F64Zero
    ELSE Quotient(Inexact(LongDiv(<<0, 0, 0, 0>> \o Mul(x.m, 128, 0), Mul(y.m, 128, 0))),
                  x.e - y.e - 15)

\* A u64 byte count as f64 / 2^bits as f64.
F64Bytes(bytes, bits) ==
    IF bytes = Bytes(0, 0) THEN F64Zero
    ELSE Round(Norm(<<bytes[2] % LimbBase, bytes[2] \div LimbBase,
                      bytes[1] % LimbBase, bytes[1] \div LimbBase>>), 1, bits)

-----------------------------------------------------------------------------
(* Cryptography: src/src/crypto/mod.rs                                     *)

SigningKeys == {"sk1", "sk2"}

\* signing_key.verifying_key()
VerifyingKeyOf(sk) == IF sk = "sk1" THEN "pk1" ELSE "pk2"

VerifyingKeys == {VerifyingKeyOf(sk) : sk \in SigningKeys}

load_signing_key_AlwaysLoads(file) == [ok |-> TRUE, key |-> "sk1"]

\* load_signing_key: fs::read fails on a missing file; String::from_utf8 fails on bytes
\* that are not UTF-8; base64::decode fails on what is left of the text once the two
\* PRIVATE KEY lines and the newlines are removed (a public key file keeps its PUBLIC KEY
\* lines); SigningKey::from_bytes fails on a wrong length. "AAAA" is base64 for 3 bytes,
\* and the empty file decodes to none.
load_signing_key(file) ==
    CASE file = NoKey -> [ok |-> FALSE, err |-> "IO error: key file"]
      [] file = "non-UTF-8 bytes" ->
            [ok |-> FALSE, err |-> "Cryptographic error: Invalid key file format"]
      [] file \in SigningKeys -> [ok |-> TRUE, key |-> file]
      [] file \in {"AAAA", ""} ->
            [ok |-> FALSE, err |-> "Cryptographic error: Invalid key format"]
      [] OTHER -> [ok |-> FALSE, err |-> "Cryptographic error: Invalid base64 encoding"]

load_verifying_key_AlwaysLoads(file) == [ok |-> TRUE, key |-> "pk1"]

\* load_verifying_key: the same steps with the PUBLIC KEY lines and VerifyingKey::from_bytes;
\* a private key file keeps its PRIVATE KEY lines and fails in base64::decode.
load_verifying_key(file) ==
    CASE file = NoKey -> [ok |-> FALSE, err |-> "IO error: key file"]
      [] file = "non-UTF-8 bytes" ->
            [ok |-> FALSE, err |-> "Cryptographic error: Invalid key file format"]
      [] file \in VerifyingKeys -> [ok |-> TRUE, key |-> file]
      [] file \in {"AAAA", ""} ->
            [ok |-> FALSE, err |-> "Cryptographic error: Invalid key format"]
      [] OTHER -> [ok |-> FALSE, err |-> "Cryptographic error: Invalid base64 encoding"]

\* sign_data: signing_key.sign(data), a 64-byte signature.
sign_data(data, signing_key) == [signer |-> VerifyingKeyOf(signing_key), data |-> data]

verify_signature_IgnoresKey(data, signature, verifying_key) == signature.data = data

\* verify_signature: verifying_key.verify(data, signature).is_ok()
verify_signature(data, signature, verifying_key) ==
    signature.signer = verifying_key /\ signature.data = data

\* hash_data: hex::encode(Sha256(data))
hash_data(data) == <<"hex", [sha256 |-> data]>>

\* hex::encode(signature.to_bytes())
HexEncodeSignature(signature) == <<"hex", signature>>

\* hex::decode of a signature string followed by Signature::from_bytes.
DecodeSignature(s) ==
    IF Len(s) = 0 THEN [ok |-> FALSE, err |-> "Invalid signature"]
    ELSE IF s[1] # "hex" THEN [ok |-> FALSE, err |-> "Invalid signature format"]
    ELSE [ok |-> TRUE, signature |-> s[2]]

-----------------------------------------------------------------------------
(* JSON: serde_json::to_string / to_string_pretty / from_slice              *)

\* The value of member `path`; members are <<path, value>> pairs.
Get(members, path) == members[CHOOSE i \in DOMAIN members : members[i][1] = path][2]

Has(members, path) == \E i \in DOMAIN members : members[i][1] = path

HasAll(members, paths) == \A i \in DOMAIN paths : Has(members, paths[i])

\* serde_json::to_string: compact text; to_string_pretty: the same members, indented.
Compact(members) == [pretty |-> FALSE, members |-> members, cut_off |-> FALSE]
Pretty(members) == [pretty |-> TRUE, members |-> members, cut_off |-> FALSE]

\* The most complete members a file keeps when the write of it stops early.
MaxKept == 1

\* The text of a file whose write stopped after `kept` members: what is there is the
\* beginning of an object, which serde_json rejects with an EOF error.
CutOff(text, kept) == [text EXCEPT !.members = SubSeq(@, 1, kept), !.cut_off = TRUE]

-----------------------------------------------------------------------------
(* Basic (v1) certificate: src/src/certificates/mod.rs                     *)

\* Members serde requires to be present (an absent Option member reads as None).
BasicRequired == <<
    "version", "certificate_id", "timestamp",
    "device_info.path", "device_info.name", "device_info.size", "device_info.device_type",
    "wipe_details.mode", "wipe_details.start_time", "wipe_details.end_time",
    "wipe_details.duration_seconds", "wipe_details.bytes_written",
    "wipe_details.verification_passed", "wipe_details.errors",
    "verification.hash", "verification.algorithm", "verification.public_key_fingerprint",
    "signature" >>

\* Serialize for WipeCertificate: serde writes the fields in declaration order.
ToJsonBasic(c) == <<
    <<"version", c.version>>,
    <<"certificate_id", c.certificate_id>>,
    <<"timestamp", c.timestamp>>,
    <<"device_info.path", c.device_info.path>>,
    <<"device_info.name", c.device_info.name>>,
    <<"device_info.size", c.device_info.size>>,
    <<"device_info.device_type", c.device_info.device_type>>,
    <<"device_info.model", c.device_info.model>>,
    <<"device_info.serial", c.device_info.serial>>,
    <<"wipe_details.mode", c.wipe_details.mode>>,
    <<"wipe_details.start_time", c.wipe_details.start_time>>,
    <<"wipe_details.end_time", c.wipe_details.end_time>>,
    <<"wipe_details.duration_seconds", c.wipe_details.duration_seconds>>,
    <<"wipe_details.bytes_written", c.wipe_details.bytes_written>>,
    <<"wipe_details.verification_passed", c.wipe_details.verification_passed>>,
    <<"wipe_details.errors", c.wipe_details.errors>>,
    <<"verification.hash", c.verification.hash>>,
    <<"verification.algorithm", c.verification.algorithm>>,
    <<"verification.public_key_fingerprint", c.verification.public_key_fingerprint>>,
    <<"signature", c.signature>> >>

Opt(m, path) == IF Has(m, path) THEN Get(m, path) ELSE <<>>

\* Deserialize for WipeCertificate: members are found by name, unknown ones are ignored.
FromJsonBasic(bytes) ==
    LET m == bytes.members IN
    IF bytes.cut_off \/ ~HasAll(m, BasicRequired) THEN [ok |-> FALSE]
    ELSE [ok |-> TRUE, certificate |-> [
        version |-> Get(m, "version"),
        certificate_id |-> Get(m, "certificate_id"),
        timestamp |-> Get(m, "timestamp"),
        device_info |-> [
            path |-> Get(m, "device_info.path"),
            name |-> Get(m, "device_info.name"),
            size |-> Get(m, "device_info.size"),
            device_type |-> Get(m, "device_info.device_type"),
            model |-> Opt(m, "device_info.model"),
            serial |-> Opt(m, "device_info.serial")],
        wipe_details |-> [
            mode |-> Get(m, "wipe_details.mode"),
            start_time |-> Get(m, "wipe_details.start_time"),
            end_time |-> Get(m, "wipe_details.end_time"),
            duration_seconds |-> Get(m, "wipe_details.duration_seconds"),
            bytes_written |-> Get(m, "wipe_details.bytes_written"),
            verification_passed |-> Get(m, "wipe_details.verification_passed"),
            errors |-> Get(m, "wipe_details.errors")],
        verification |-> [
            hash |-> Get(m, "verification.hash"),
            algorithm |-> Get(m, "verification.algorithm"),
            public_key_fingerprint |-> Get(m, "verification.public_key_fingerprint")],
        signature |-> Get(m, "signature")]]

HexDigits == <<"0", "1", "2", "3", "4", "5", "6", "7", "8", "9", "A", "B", "C", "D", "E", "F">>

RECURSIVE HexPadded(_, _)
\* format!("{:0wX}", n): n in upper-case hexadecimal, zero-padded to w digits.
HexPadded(n, w) ==
    IF w = 0 THEN (IF n = 0 THEN "" ELSE HexPadded(n, 1))
    ELSE HexPadded(n \div 16, w - 1) \o HexDigits[(n % 16) + 1]

\* The structure generate_certificate builds twice: first with hash, fingerprint and
\* signature empty (the one it hashes and signs), then with them filled (the one it persists).
WipeCertificate(wr, timestamp, hash, fingerprint, signature) == [
    version |-> "1.0",
    certificate_id |-> "WIPE_" \o HexPadded(timestamp, 16),
    timestamp |-> timestamp,
    device_info |-> [
        path |-> wr.device.path,
        name |-> wr.device.name,
        size |-> wr.device.size,
        device_type |-> wr.device.device_type,
        model |-> wr.device.model,
        serial |-> wr.device.serial],
    wipe_details |-> [
        mode |-> wr.mode,
        start_time |-> wr.start_time,
        end_time |-> wr.end_time,
        duration_seconds |-> wr.duration_seconds,
        bytes_written |-> wr.bytes_written,
        verification_passed |-> wr.verification_passed,
        errors |-> wr.errors],
    verification |-> [
        hash |-> hash,
        algorithm |-> "SHA-256",
        public_key_fingerprint |-> fingerprint],
    signature |-> signature]

\* The fingerprint generate_certificate puts into the structure it hashes and signs.
BasicSignedFingerprint == ""

\* The fingerprint generate_certificate puts into the structure it persists.
BasicPersistedFingerprint == "ED25519"

\* generate_certificate up to the JSON write: the bytes hashed and signed, and the bytes
\* written to json_path.
generate_certificate(wr, signing_key, timestamp) ==
    LET data == Compact(ToJsonBasic(
                    WipeCertificate(wr, timestamp, <<>>, BasicSignedFingerprint, <<>>)))
        hash == hash_data(data)
        signature == sign_data(data, signing_key)
        certificate == WipeCertificate(wr, timestamp, hash, BasicPersistedFingerprint,
                                       HexEncodeSignature(signature))
    IN [certificate_data |-> data, json_data |-> Pretty(ToJsonBasic(certificate))]

-----------------------------------------------------------------------------
(* Enhanced (v2) certificate: src/src/certificates/enhanced.rs             *)

\* Members of EnhancedWipeCertificate that serde requires to be present.
EnhancedRequired == <<
    "version", "certificate_id", "timestamp",
    "issuer.name", "issuer.organization", "issuer.public_key_fingerprint",
    "device_info.path", "device_info.name", "device_info.size", "device_info.device_type",
    "device_info.hidden_areas",
    "device_info.capabilities.supports_secure_erase", "device_info.capabilities.supports_trim",
    "device_info.capabilities.supports_crypto_erase",
    "device_info.capabilities.supports_format_unit",
    "wipe_details.mode", "wipe_details.start_time", "wipe_details.end_time",
    "wipe_details.duration_seconds", "wipe_details.bytes_written",
    "wipe_details.passes_completed", "wipe_details.verification_passed",
    "wipe_details.errors", "wipe_details.warnings",
    "wipe_details.performance_metrics.average_speed_mbps",
    "wipe_details.performance_metrics.peak_speed_mbps",
    "wipe_details.performance_metrics.sectors_per_second",
    "wipe_details.performance_metrics.retry_count",
    "verification.hash", "verification.algorithm", "verification.verification_method",
    "verification.sample_count", "verification.verification_ratio",
    "verification.forensic_tools_used",
    "compliance.standards", "compliance.compliance_level", "compliance.audit_trail",
    "signature",
    "metadata.tool_version", "metadata.platform", "metadata.architecture",
    "metadata.generated_by" >>

\* Serialize for EnhancedWipeCertificate: the fields in declaration order
\* (signature comes before metadata).
ToJsonEnhanced(c) == <<
    <<"version", c.version>>,
    <<"certificate_id", c.certificate_id>>,
    <<"timestamp", c.timestamp>>,
    <<"issuer.name", c.issuer.name>>,
    <<"issuer.organization", c.issuer.organization>>,
    <<"issuer.email", c.issuer.email>>,
    <<"issuer.public_key_fingerprint", c.issuer.public_key_fingerprint>>,
    <<"device_info.path", c.device_info.path>>,
    <<"device_info.name", c.device_info.name>>,
    <<"device_info.size", c.device_info.size>>,
    <<"device_info.device_type", c.device_info.device_type>>,
    <<"device_info.model", c.device_info.model>>,
    <<"device_info.serial", c.device_info.serial>>,
    <<"device_info.firmware_version", c.device_info.firmware_version>>,
    <<"device_info.interface_type", c.device_info.interface_type>>,
    <<"device_info.hidden_areas", c.device_info.hidden_areas>>,
    <<"device_info.capabilities.supports_secure_erase",
      c.device_info.capabilities.supports_secure_erase>>,
    <<"device_info.capabilities.supports_trim", c.device_info.capabilities.supports_trim>>,
    <<"device_info.capabilities.supports_crypto_erase",
      c.device_info.capabilities.supports_crypto_erase>>,
    <<"device_info.capabilities.supports_format_unit",
      c.device_info.capabilities.supports_format_unit>>,
    <<"wipe_details.mode", c.wipe_details.mode>>,
    <<"wipe_details.start_time", c.wipe_details.start_time>>,
    <<"wipe_details.end_time", c.wipe_details.end_time>>,
    <<"wipe_details.duration_seconds", c.wipe_details.duration_seconds>>,
    <<"wipe_details.bytes_written", c.wipe_details.bytes_written>>,
    <<"wipe_details.passes_completed", c.wipe_details.passes_completed>>,
    <<"wipe_details.verification_passed", c.wipe_details.verification_passed>>,
    <<"wipe_details.errors", c.wipe_details.errors>>,
    <<"wipe_details.warnings", c.wipe_details.warnings>>,
    <<"wipe_details.performance_metrics.average_speed_mbps",
      c.wipe_details.performance_metrics.average_speed_mbps>>,
    <<"wipe_details.performance_metrics.peak_speed_mbps",
      c.wipe_details.performance_metrics.peak_speed_mbps>>,
    <<"wipe_details.performance_metrics.sectors_per_second",
      c.wipe_details.performance_metrics.sectors_per_second>>,
    <<"wipe_details.performance_metrics.retry_count",
      c.wipe_details.performance_metrics.retry_count>>,
    <<"verification.hash", c.verification.hash>>,
    <<"verification.algorithm", c.verification.algorithm>>,
    <<"verification.verification_method", c.verification.verification_method>>,
    <<"verification.sample_count", c.verification.sample_count>>,
    <<"verification.verification_ratio", c.verification.verification_ratio>>,
    <<"verification.forensic_tools_used", c.verification.forensic_tools_used>>,
    <<"compliance.standards", c.compliance.standards>>,
    <<"compliance.compliance_level", c.compliance.compliance_level>>,
    <<"compliance.audit_trail", c.compliance.audit_trail>>,
    <<"pki.ocsp_url", c.pki.ocsp_url>>,
    <<"pki.crl_url", c.pki.crl_url>>,
    <<"pki.ca_chain_pem", c.pki.ca_chain_pem>>,
    <<"signature", c.signature>>,
    <<"metadata.tool_version", c.metadata.tool_version>>,
    <<"metadata.platform", c.metadata.platform>>,
    <<"metadata.architecture", c.metadata.architecture>>,
    <<"metadata.generated_by", c.metadata.generated_by>>,
    <<"metadata.qr_code_data", c.metadata.qr_code_data>> >>

\* The fields serde requires in every element of device_info.hidden_areas
\* (struct HiddenAreaInfo) and of compliance.audit_trail (struct AuditEntry, whose
\* details is an Option).
HiddenAreaInfoFields == {"area_type", "start_lba", "size", "description", "wiped"}
AuditEntryFields == {"timestamp", "action", "result"}

\* Deserialize for Vec<T> of a struct T: every element has the fields T requires.
ElementsHave(list, fields) == \A i \in DOMAIN list : fields \subseteq DOMAIN list[i]

\* Deserialize for HiddenAreaInfo and for AuditEntry: the fields of the struct are read,
\* a field the struct does not have is skipped, and an absent details is None.
HiddenAreaInfo(e) ==
    [area_type |-> e.area_type, start_lba |-> e.start_lba, size |-> e.size,
     description |-> e.description, wiped |-> e.wiped]

AuditEntry(e) ==
    [timestamp |-> e.timestamp, action |-> e.action, result |-> e.result,
     details |-> IF "details" \in DOMAIN e THEN e.details ELSE <<>>]

\* Deserialize for EnhancedWipeCertificate: the required members are present and the
\* elements of the two lists of structs are complete; anything else is an error.
FromJsonEnhanced(bytes) ==
    LET m == bytes.members IN
    IF bytes.cut_off \/ ~HasAll(m, EnhancedRequired) THEN [ok |-> FALSE]
    ELSE IF ~ElementsHave(Get(m, "device_info.hidden_areas"), HiddenAreaInfoFields)
    THEN [ok |-> FALSE]
    ELSE IF ~ElementsHave(Get(m, "compliance.audit_trail"), AuditEntryFields)
    THEN [ok |-> FALSE]
    ELSE [ok |-> TRUE, certificate |-> [
        version |-> Get(m, "version"),
        certificate_id |-> Get(m, "certificate_id"),
        timestamp |-> Get(m, "timestamp"),
        issuer |-> [
            name |-> Get(m, "issuer.name"),
            organization |-> Get(m, "issuer.organization"),
            email |-> Opt(m, "issuer.email"),
            public_key_fingerprint |-> Get(m, "issuer.public_key_fingerprint")],
        device_info |-> [
            path |-> Get(m, "device_info.path"),
            name |-> Get(m, "device_info.name"),
            size |-> Get(m, "device_info.size"),
            device_type |-> Get(m, "device_info.device_type"),
            model |-> Opt(m, "device_info.model"),
            serial |-> Opt(m, "device_info.serial"),
            firmware_version |-> Opt(m, "device_info.firmware_version"),
            interface_type |-> Opt(m, "device_info.interface_type"),
            hidden_areas |-> [i \in DOMAIN Get(m, "device_info.hidden_areas") |->
                                 HiddenAreaInfo(Get(m, "device_info.hidden_areas")[i])],
            capabilities |-> [
                supports_secure_erase |-> Get(m, "device_info.capabilities.supports_secure_erase"),
                supports_trim |-> Get(m, "device_info.capabilities.supports_trim"),
                supports_crypto_erase |-> Get(m, "device_info.capabilities.supports_crypto_erase"),
                supports_format_unit |-> Get(m, "device_info.capabilities.supports_format_unit")]],
        wipe_details |-> [
            mode |-> Get(m, "wipe_details.mode"),
            start_time |-> Get(m, "wipe_details.start_time"),
            end_time |-> Get(m, "wipe_details.end_time"),
            duration_seconds |-> Get(m, "wipe_details.duration_seconds"),
            bytes_written |-> Get(m, "wipe_details.bytes_written"),
            passes_completed |-> Get(m, "wipe_details.passes_completed"),
            verification_passed |-> Get(m, "wipe_details.verification_passed"),
            errors |-> Get(m, "wipe_details.errors"),
            warnings |-> Get(m, "wipe_details.warnings"),
            performance_metrics |-> [
                average_speed_mbps |-> Get(m, "wipe_details.performance_metrics.average_speed_mbps"),
                peak_speed_mbps |-> Get(m, "wipe_details.performance_metrics.peak_speed_mbps"),
                sectors_per_second |-> Get(m, "wipe_details.performance_metrics.sectors_per_second"),
                retry_count |-> Get(m, "wipe_details.performance_metrics.retry_count")]],
        verification |-> [
            hash |-> Get(m, "verification.hash"),
            algorithm |-> Get(m, "verification.algorithm"),
            verification_method |-> Get(m, "verification.verification_method"),
            sample_count |-> Get(m, "verification.sample_count"),
            verification_ratio |-> Get(m, "verification.verification_ratio"),
            forensic_tools_used |-> Get(m, "verification.forensic_tools_used")],
        compliance |-> [
            standards |-> Get(m, "compliance.standards"),
            compliance_level |-> Get(m, "compliance.compliance_level"),
            audit_trail |-> [i \in DOMAIN Get(m, "compliance.audit_trail") |->
                                AuditEntry(Get(m, "compliance.audit_trail")[i])]],
        pki |-> [
            ocsp_url |-> Opt(m, "pki.ocsp_url"),
            crl_url |-> Opt(m, "pki.crl_url"),
            ca_chain_pem |-> Opt(m, "pki.ca_chain_pem")],
        signature |-> Get(m, "signature"),
        metadata |-> [
            tool_version |-> Get(m, "metadata.tool_version"),
            platform |-> Get(m, "metadata.platform"),
            architecture |-> Get(m, "metadata.architecture"),
            generated_by |-> Get(m, "metadata.generated_by"),
            qr_code_data |-> Opt(m, "metadata.qr_code_data")]]]

\* EnhancedCertificateGenerator::new(issuer_name, organization)
EnhancedCertificateGenerator(issuer_name, organization) == [
    issuer_info |-> [
        name |-> issuer_name,
        organization |-> organization,
        email |-> <<>>,
        public_key_fingerprint |-> ""],
    tool_version |-> "CARGO_PKG_VERSION",
    ocsp_url |-> <<>>,
    crl_url |-> <<>>,
    ca_chain_pem |-> <<>>]

\* The builders: each sets one Option field to Some and hands the generator back.
with_ocsp_url(gen, url) == [gen EXCEPT !.ocsp_url = <<url>>]
with_crl_url(gen, url) == [gen EXCEPT !.crl_url = <<url>>]
with_ca_chain_pem(gen, pem) == [gen EXCEPT !.ca_chain_pem = <<pem>>]

convert_hidden_areas(dev) == [i \in DOMAIN dev.hidden_areas |->
    [area_type |-> dev.hidden_areas[i].area_type,
     start_lba |-> dev.hidden_areas[i].start_lba,
     size |-> dev.hidden_areas[i].size,
     description |-> dev.hidden_areas[i].description,
     wiped |-> TRUE]]

check_crypto_erase_support(dev) == dev.device_type = "NVMe"

check_format_unit_support(dev) == TRUE

calculate_passes_completed(m) ==
    CASE m = "Quick" -> 1
      [] m = "Full" -> 3
      [] m = "Advanced" -> 7

\* 2 * 1024 * 1024 * 1024 * 1024 bytes, in GiB.
LargeDeviceGiB == 2048

generate_warnings_FromTwoTiB(wr) ==
    (IF ~wr.verification_passed
        THEN <<"Device verification failed - manual inspection recommended">> ELSE <<>>)
    \o (IF wr.errors # <<>> THEN <<"Errors occurred during wipe operation">> ELSE <<>>)
    \o (IF wr.device.size[1] >= LargeDeviceGiB
        THEN <<"Large device - extended verification recommended">> ELSE <<>>)

generate_warnings(wr) ==
    (IF ~wr.verification_passed
        THEN <<"Device verification failed - manual inspection recommended">> ELSE <<>>)
    \o (IF wr.errors # <<>> THEN <<"Errors occurred during wipe operation">> ELSE <<>>)
    \o (IF wr.device.size[1] > LargeDeviceGiB
           \/ (wr.device.size[1] = LargeDeviceGiB /\ wr.device.size[2] > 0)
        THEN <<"Large device - extended verification recommended">> ELSE <<>>)

\* duration_hours = duration_seconds as f64 / 3600.0
DurationHours(seconds) == IF seconds = 0 THEN F64Zero ELSE F64(seconds, 3600)

\* size_gb * 1024.0
TimesKibi(size_gb) == IF size_gb = F64Zero THEN F64Zero ELSE F64Times(size_gb, 1024)

\* if duration_hours > 0.0 { (size_gb * 1024.0) / duration_hours } else { 0.0 }
SpeedOver(size_gb, duration_hours) ==
    IF duration_hours = F64Zero THEN F64Zero
    ELSE F64Quot(TimesKibi(size_gb), duration_hours)

\* average_speed_mbps, with size_gb = bytes_written as f64 / (1024.0 * 1024.0 * 1024.0):
\* every operation yields the f64 nearest to its exact result.
AverageSpeed(bytes, seconds) == SpeedOver(F64Bytes(bytes, 30), DurationHours(seconds))

\* average_speed_mbps * 1.5
TimesOneAndHalf(x) == IF x = F64Zero THEN F64Zero ELSE Round(Mul(x.m, 3, 0), 1, x.e + 1)

PerformanceMetrics(average_speed_mbps, peak_speed_mbps, wr) ==
    [average_speed_mbps |-> average_speed_mbps,
     peak_speed_mbps |-> peak_speed_mbps,
     sectors_per_second |->
         IF wr.duration_seconds > 0
         THEN SectorsPerSecond(wr.bytes_written, wr.duration_seconds) ELSE 0,
     retry_count |-> 0]

PeakOf(average_speed_mbps, wr) ==
    PerformanceMetrics(average_speed_mbps, TimesOneAndHalf(average_speed_mbps), wr)

SameAsAverage(average_speed_mbps, wr) ==
    PerformanceMetrics(average_speed_mbps, average_speed_mbps, wr)

calculate_performance_metrics_PeakIsAverage(wr) ==
    SameAsAverage(AverageSpeed(wr.bytes_written, wr.duration_seconds), wr)

calculate_performance_metrics(wr) ==
    PeakOf(AverageSpeed(wr.bytes_written, wr.duration_seconds), wr)

determine_compliance_level_ByVerification(m) ==
    CASE m = "Quick" -> "Basic"
      [] m = "Full" -> "High"
      [] m = "Advanced" -> "High"

determine_compliance_level(m) ==
    CASE m = "Quick" -> "Basic"
      [] m = "Full" -> "Standard"
      [] m = "Advanced" -> "High"

generate_audit_trail(wr) == <<
    [timestamp |-> wr.start_time, action |-> "Wipe Operation Started",
     result |-> "Success", details |-> << <<"Mode: ", wr.mode>> >>],
    [timestamp |-> wr.end_time, action |-> "Wipe Operation Completed",
     result |-> IF wr.verification_passed THEN "Success" ELSE "Failed",
     details |-> << <<"Bytes written: ", wr.bytes_written>> >>],
    [timestamp |-> wr.end_time, action |-> "Verification Performed",
     result |-> IF wr.verification_passed THEN "Passed" ELSE "Failed",
     details |-> <<>>] >>

\* serde_json::json!({...}).to_string() over seven members of the certificate.
generate_qr_code_data(c) == [
    id |-> c.certificate_id,
    timestamp |-> c.timestamp,
    device |-> c.device_info.name,
    mode |-> c.wipe_details.mode,
    verified |-> c.wipe_details.verification_passed,
    hash |-> c.verification.hash,
    ocsp |-> c.pki.ocsp_url]

ComplianceStandards == <<"NIST SP 800-88 Rev. 1", "DoD 5220.22-M", "ISO/IEC 27040:2015">>

\* The structure generate_enhanced_certificate builds, with hash and signature empty
\* and metadata.qr_code_data None.
EnhancedWipeCertificate(gen, wr, timestamp, rand) == [
    version |-> "2.0",
    certificate_id |-> "WIPE_" \o HexPadded(timestamp, 16) \o "_" \o ToString(rand),
    timestamp |-> timestamp,
    issuer |-> gen.issuer_info,
    device_info |-> [
        path |-> wr.device.path,
        name |-> wr.device.name,
        size |-> wr.device.size,
        device_type |-> wr.device.device_type,
        model |-> wr.device.model,
        serial |-> wr.device.serial,
        firmware_version |-> <<"Unknown">>,
        interface_type |-> <<"Unknown">>,
        hidden_areas |-> convert_hidden_areas(wr.device),
        capabilities |-> [
            supports_secure_erase |-> wr.device.supports_secure_erase,
            supports_trim |-> wr.device.supports_trim,
            supports_crypto_erase |-> check_crypto_erase_support(wr.device),
            supports_format_unit |-> check_format_unit_support(wr.device)]],
    wipe_details |-> [
        mode |-> wr.mode,
        start_time |-> wr.start_time,
        end_time |-> wr.end_time,
        duration_seconds |-> wr.duration_seconds,
        bytes_written |-> wr.bytes_written,
        passes_completed |-> calculate_passes_completed(wr.mode),
        verification_passed |-> wr.verification_passed,
        errors |-> wr.errors,
        warnings |-> generate_warnings(wr),
        performance_metrics |-> calculate_performance_metrics(wr)],
    verification |-> [
        hash |-> <<>>,
        algorithm |-> "SHA-256",
        verification_method |-> "Random Sector Sampling",
        sample_count |-> 100,
        verification_ratio |-> IF wr.verification_passed THEN Rat(1, 1) ELSE Rat(0, 1),
        forensic_tools_used |-> <<"Internal Verification">>],
    compliance |-> [
        standards |-> ComplianceStandards,
        compliance_level |-> determine_compliance_level(wr.mode),
        audit_trail |-> generate_audit_trail(wr)],
    pki |-> [
        ocsp_url |-> gen.ocsp_url,
        crl_url |-> gen.crl_url,
        ca_chain_pem |-> gen.ca_chain_pem],
    signature |-> <<>>,
    metadata |-> [
        tool_version |-> gen.tool_version,
        platform |-> "linux",
        architecture |-> "x86_64",
        generated_by |-> gen.issuer_info.name,
        qr_code_data |-> <<>>]]

\* The three assignments generate_enhanced_certificate makes after hashing and signing.
EnhancedPersisted(certificate, hash, signature) ==
    LET c1 == [certificate EXCEPT !.verification.hash = hash,
                                  !.signature = HexEncodeSignature(signature)]
    IN [c1 EXCEPT !.metadata.qr_code_data = <<generate_qr_code_data(c1)>>]

\* generate_enhanced_certificate up to the JSON write: the bytes hashed and signed, and
\* the bytes written to json_path.
generate_enhanced_certificate(gen, wr, signing_key, timestamp, rand) ==
    LET certificate == EnhancedWipeCertificate(gen, wr, timestamp, rand)
        data == Compact(ToJsonEnhanced(certificate))
        hash == hash_data(data)
        signature == sign_data(data, signing_key)
    IN [certificate_data |-> data,
        json_data |-> Pretty(ToJsonEnhanced(EnhancedPersisted(certificate, hash, signature)))]

-----------------------------------------------------------------------------
(* Certificate verifier: src/src/certificates/verifier.rs                  *)

\* VerificationResult::default()
DefaultVerificationResult == [
    is_valid |-> FALSE,
    signature_valid |-> FALSE,
    hash_valid |-> FALSE,
    compliance_valid |-> FALSE,
    warnings |-> <<>>,
    errors |-> <<>>,
    verification_details |-> [
        certificate_age_days |-> 0,
        device_size_gb |-> 0,
        wipe_duration_seconds |-> 0,
        verification_ratio |-> Rat(0, 1),
        ocsp_checked |-> FALSE,
        crl_checked |-> FALSE]]

\* cert_copy with verification.hash and signature cleared, serialized with to_string.
CanonicalBasic(certificate) ==
    Compact(ToJsonBasic([certificate EXCEPT !.verification.hash = <<>>, !.signature = <<>>]))

CanonicalEnhanced(certificate) ==
    Compact(ToJsonEnhanced([certificate EXCEPT !.verification.hash = <<>>, !.signature = <<>>]))

\* Display of SecureEraseError::CertificateVerificationFailed(msg)
CertificateVerificationFailed(msg) == "Certificate verification failed: " \o msg

verify_signature_basic(certificate, verifying_key) ==
    LET d == DecodeSignature(certificate.signature) IN
    IF ~d.ok THEN [ok |-> FALSE, err |-> CertificateVerificationFailed(d.err)]
    ELSE [ok |-> TRUE,
          valid |-> verify_signature(CanonicalBasic(certificate), d.signature, verifying_key)]

verify_signature_enhanced(certificate, verifying_key) ==
    LET d == DecodeSignature(certificate.signature) IN
    IF ~d.ok THEN [ok |-> FALSE, err |-> CertificateVerificationFailed(d.err)]
    ELSE [ok |-> TRUE,
          valid |-> verify_signature(CanonicalEnhanced(certificate), d.signature, verifying_key)]

verify_hash_basic(certificate) ==
    [ok |-> TRUE, valid |-> hash_data(CanonicalBasic(certificate)) = certificate.verification.hash]

verify_hash_enhanced(certificate) ==
    [ok |-> TRUE,
     valid |-> hash_data(CanonicalEnhanced(certificate)) = certificate.verification.hash]

check_compliance_enhanced_IgnoresStandards(certificate) ==
    /\ certificate.wipe_details.verification_passed
    /\ certificate.wipe_details.errors = <<>>

check_compliance_enhanced(certificate) ==
    /\ certificate.wipe_details.verification_passed
    /\ certificate.wipe_details.errors = <<>>
    /\ certificate.compliance.standards # <<>>

check_ocsp_status_WithoutUrl(certificate, result) ==
    [result EXCEPT !.verification_details.ocsp_checked = TRUE]

check_ocsp_status(certificate, result) ==
    IF certificate.pki.ocsp_url # <<>>
    THEN [result EXCEPT !.verification_details.ocsp_checked = TRUE] ELSE result

check_crl_status(certificate, result) ==
    IF certificate.pki.crl_url # <<>>
    THEN [result EXCEPT !.verification_details.crl_checked = TRUE] ELSE result

RecordSignature_SilentOnError(result, sig) ==
    IF sig.ok
    THEN [result EXCEPT !.signature_valid = sig.valid,
                        !.errors = IF sig.valid THEN @ ELSE Append(@, "Invalid signature")]
    ELSE result

\* The match on the signature check and the match on the hash check, shared by both paths.
RecordSignature(result, sig) ==
    IF sig.ok
    THEN [result EXCEPT !.signature_valid = sig.valid,
                        !.errors = IF sig.valid THEN @ ELSE Append(@, "Invalid signature")]
    ELSE [result EXCEPT !.errors = Append(@, "Signature verification failed: " \o sig.err)]

RecordHash(result, h) ==
    IF h.ok
    THEN [result EXCEPT !.hash_valid = h.valid,
                        !.warnings = IF h.valid THEN @ ELSE Append(@, "Hash verification failed")]
    ELSE [result EXCEPT !.warnings = Append(@, "Hash verification error: " \o h.err)]

\* verify_basic_certificate. Line 56 reads certificate.verification_passed and
\* certificate.errors; the members of that name live in wipe_details.
verify_basic_certificate(v, certificate) ==
    LET result == DefaultVerificationResult
        key == load_verifying_key(v.public_key_file)
    IN IF ~key.ok
       THEN [result EXCEPT !.errors = Append(@, "Failed to load public key: " \o key.err)]
       ELSE LET r1 == RecordSignature(result, verify_signature_basic(certificate, key.key))
                r2 == RecordHash(r1, verify_hash_basic(certificate))
                r3 == [r2 EXCEPT !.compliance_valid =
                          certificate.wipe_details.verification_passed
                          /\ certificate.wipe_details.errors = <<>>]
            IN [r3 EXCEPT !.is_valid = r3.signature_valid /\ r3.hash_valid]

verify_enhanced_certificate(v, certificate) ==
    LET result == DefaultVerificationResult
        key == load_verifying_key(v.public_key_file)
    IN IF ~key.ok
       THEN [result EXCEPT !.errors = Append(@, "Failed to load public key: " \o key.err)]
       ELSE LET r1 == RecordSignature(result, verify_signature_enhanced(certificate, key.key))
                r2 == RecordHash(r1, verify_hash_enhanced(certificate))
                r3 == [r2 EXCEPT !.compliance_valid = check_compliance_enhanced(certificate)]
                r4 == IF v.enable_ocsp THEN check_ocsp_status(certificate, r3) ELSE r3
                r5 == IF v.enable_crl THEN check_crl_status(certificate, r4) ELSE r4
            IN [r5 EXCEPT !.is_valid =
                   r5.signature_valid /\ r5.hash_valid /\ r5.compliance_valid]

\* CertificateVerifier::new() and with_public_key. public_key_file stands for the content
\* of the file the verifier reads its key from: the file at public_key_path, and with
\* public_key_path None the file ./public_key.pem (unwrap_or at lines 52 and 63), whose
\* content is public_key_pem.
CertificateVerifier(public_key_pem) ==
    [public_key_file |-> public_key_pem, enable_ocsp |-> TRUE, enable_crl |-> TRUE]

with_public_key(v, public_key_file) == [v EXCEPT !.public_key_file = public_key_file]

verify_certificate_BasicFirst(v, file, enhanced, basic) ==
    IF file = NoFile THEN [ok |-> FALSE, err |-> "IO error: certificate file"]
    ELSE IF basic.ok
         THEN [ok |-> TRUE, schema |-> "basic",
               result |-> verify_basic_certificate(v, basic.certificate)]
         ELSE IF enhanced.ok
              THEN [ok |-> TRUE, schema |-> "enhanced",
                    result |-> verify_enhanced_certificate(v, enhanced.certificate)]
              ELSE [ok |-> FALSE, err |-> "Serialization error"]

\* CertificateVerifier::verify_certificate once fs::read has returned: `enhanced` is what
\* from_slice::<EnhancedWipeCertificate> gives on the bytes and `basic` what
\* from_slice::<WipeCertificate> gives, which is looked at only if the first is an Err.
\* `schema` is recorded beside the result to tell which path ran.
verify_parsed_certificate(v, file, enhanced, basic) ==
    IF file = NoFile THEN [ok |-> FALSE, err |-> "IO error: certificate file"]
    ELSE IF enhanced.ok
         THEN [ok |-> TRUE, schema |-> "enhanced",
               result |-> verify_enhanced_certificate(v, enhanced.certificate)]
         ELSE IF basic.ok
              THEN [ok |-> TRUE, schema |-> "basic",
                    result |-> verify_basic_certificate(v, basic.certificate)]
              ELSE [ok |-> FALSE, err |-> "Serialization error"]

\* CertificateVerifier::verify_certificate: read the file, try the enhanced schema, then
\* the basic one.
verify_certificate(v, file) ==
    verify_parsed_certificate(v, file, FromJsonEnhanced(file), FromJsonBasic(file))

\* The legacy certificates::verify_certificate(certificate_path, public_key_path) once
\* fs::read has returned, `basic` being what from_slice::<WipeCertificate> gives: `?` on
\* the parse, load the key, decode the signature (`?` on each), then verify it over the
\* certificate serialized with only its signature cleared.
legacy_verify_parsed(file, basic, public_key_file) ==
    IF file = NoFile THEN [ok |-> FALSE, err |-> "IO error: certificate file"]
    ELSE IF ~basic.ok THEN [ok |-> FALSE, err |-> "Serialization error"]
         ELSE LET k == load_verifying_key(public_key_file) IN
              IF ~k.ok THEN [ok |-> FALSE, err |-> k.err]
              ELSE LET d == DecodeSignature(basic.certificate.signature) IN
                   IF ~d.ok THEN [ok |-> FALSE, err |-> CertificateVerificationFailed(d.err)]
                   ELSE [ok |-> TRUE,
                         valid |-> verify_signature(
                             Compact(ToJsonBasic([basic.certificate
                                                     EXCEPT !.signature = <<>>])),
                             d.signature, k.key)]

\* The legacy certificates::verify_certificate: read and parse the basic schema, then the
\* above.
legacy_verify_certificate(file, public_key_file) ==
    legacy_verify_parsed(file, FromJsonBasic(file), public_key_file)

-----------------------------------------------------------------------------
(* CLI verify command: src/src/cli/mod.rs, src/src/certificates/verifier.rs *)

\* VerificationResult::print_result: the lines written to standard output, the empty
\* lines of the "\n" prefixes included. The check mark, cross and warning sign of the
\* source are written [+], [x] and [!]. The closing block prints verification_details
\* members no verifier path sets; {:.1} prints the f64 product verification_ratio * 100.0
\* rounded to one decimal, a tie of the product itself going to the even digit.
print_result(r) ==
    LET ratio == r.verification_details.verification_ratio
        Tenths(x) == NearestWhole(Shr(Mul(x.m, 10, 0), x.e - 1))
        OneDecimal(tenths) == ToString(tenths \div 10) \o "." \o ToString(tenths % 10)
    IN
    <<"Certificate Verification Result:",
      "================================",
      IF r.is_valid THEN "[+] Certificate is VALID" ELSE "[x] Certificate is INVALID",
      "",
      "Verification Details:",
      "  Signature: " \o (IF r.signature_valid THEN "[+] Valid" ELSE "[x] Invalid"),
      "  Hash: " \o (IF r.hash_valid THEN "[+] Valid" ELSE "[x] Invalid"),
      "  Compliance: " \o (IF r.compliance_valid THEN "[+] Valid" ELSE "[x] Invalid"),
      "  OCSP Checked: " \o (IF r.verification_details.ocsp_checked THEN "Yes" ELSE "No"),
      "  CRL Checked: " \o (IF r.verification_details.crl_checked THEN "Yes" ELSE "No")>>
    \o (IF r.warnings # <<>>
        THEN <<"", "Warnings:">> \o [k \in 1..Len(r.warnings) |-> "  [!] " \o r.warnings[k]]
        ELSE <<>>)
    \o (IF r.errors # <<>>
        THEN <<"", "Errors:">> \o [k \in 1..Len(r.errors) |-> "  [x] " \o r.errors[k]]
        ELSE <<>>)
    \o <<"",
         "Verification Details:",
         "  Certificate Age: " \o ToString(r.verification_details.certificate_age_days) \o " days",
         "  Device Size: " \o ToString(r.verification_details.device_size_gb) \o " GB",
         "  Wipe Duration: " \o ToString(r.verification_details.wipe_duration_seconds)
             \o " seconds",
         "  Verification Ratio: "
             \o OneDecimal(IF ratio[1] = 0 THEN 0
                           ELSE Tenths(F64Times(F64(ratio[1], ratio[2]), 100)))
             \o "%">>

cli_verify_certificate_AlwaysOk(verification) ==
    IF ~verification.ok
    THEN [ok |-> FALSE, err |-> verification.err, printed |-> <<>>]
    ELSE [ok |-> TRUE, printed |-> <<print_result(verification.result)>>]

\* cli::verify_certificate after the verifier is built: `?` on verify_certificate, then
\* print_result, then the error for a result that is not valid. `printed` is Some(text)
\* once print_result ran.
cli_verify_certificate(verification) ==
    IF ~verification.ok
    THEN [ok |-> FALSE, err |-> verification.err, printed |-> <<>>]
    ELSE IF ~verification.result.is_valid
    THEN [ok |-> FALSE,
          err |-> CertificateVerificationFailed("Certificate verification failed"),
          printed |-> <<print_result(verification.result)>>]
    ELSE [ok |-> TRUE, printed |-> <<print_result(verification.result)>>]

-----------------------------------------------------------------------------
(* Certificate protocol: issue, edit the persisted file, verify             *)

\* Display of the error of one failed attempt, as the engine records it.
AttemptMessage(n, detail) == "Attempt " \o ToString(n) \o " failed: " \o detail

\* Two device snapshots with the duration of their wipe: a small HDD with a hidden area,
\* wiped within the same second, and a 500 GiB NVMe wiped in two hours.
WipeRuns == {
    [device |-> [path |-> "/dev/sda", name |-> "Disk A", size |-> Bytes(0, 1024),
                 device_type |-> "HDD", model |-> <<"Model A">>, serial |-> <<"SN-A">>,
                 supports_secure_erase |-> TRUE, supports_trim |-> FALSE,
                 hidden_areas |-> <<[area_type |-> "HPA", start_lba |-> 2, size |-> 1,
                                     description |-> "Host Protected Area"]>>],
     duration |-> 0],
    [device |-> [path |-> "/dev/nvme0n1", name |-> "Disk B", size |-> Bytes(500, 0),
                 device_type |-> "NVMe", model |-> <<>>, serial |-> <<>>,
                 supports_secure_erase |-> FALSE, supports_trim |-> TRUE,
                 hidden_areas |-> <<>>],
     duration |-> 7200] }

StartTime == 1000
IssueTime == 9000
RandomU32 == 7

\* The WipeResult values handed to the issuers: what secure_erase_with_verification
\* returns (bytes_written is device.size), over both verification outcomes and with or
\* without a recorded failed attempt.
WipeResults == {
    [device |-> run.device, mode |-> m,
     start_time |-> StartTime, end_time |-> StartTime + run.duration,
     duration_seconds |-> run.duration, bytes_written |-> run.device.size,
     verification_passed |-> vp, errors |-> errs] :
    run \in WipeRuns, m \in EraseModes, vp \in BOOLEAN,
    errs \in {<<>>, <<AttemptMessage(1, "IO error: device")>>} }

\* The generators that issue: the one the CLI builds (new with its two names, no
\* builder), that one with both revocation URLs set, and one of another tool that carries
\* a CA chain.
Generators == {
    EnhancedCertificateGenerator("Secure Disk Erasure Tool", "Your Organization"),
    with_crl_url(
        with_ocsp_url(
            EnhancedCertificateGenerator("Secure Disk Erasure Tool", "Your Organization"),
            "http://ocsp.example"),
        "http://crl.example"),
    with_ca_chain_pem(EnhancedCertificateGenerator("Other Tool", "Other Org"), "PEM") }

\* The cleared canonical bytes of a persisted file, by the schema it parses as.
CanonicalOfFile(file) ==
    LET e == FromJsonEnhanced(file) IN
    IF e.ok THEN CanonicalEnhanced(e.certificate)
    ELSE CanonicalBasic(FromJsonBasic(file).certificate)

BoolPaths == {"wipe_details.verification_passed",
              "device_info.capabilities.supports_secure_erase",
              "device_info.capabilities.supports_trim",
              "device_info.capabilities.supports_crypto_erase",
              "device_info.capabilities.supports_format_unit"}
CountPaths == {"timestamp", "wipe_details.start_time", "wipe_details.end_time",
               "wipe_details.duration_seconds", "wipe_details.passes_completed",
               "wipe_details.performance_metrics.sectors_per_second",
               "wipe_details.performance_metrics.retry_count", "verification.sample_count"}
BytePaths == {"device_info.size", "wipe_details.bytes_written"}
SpeedPaths == {"wipe_details.performance_metrics.average_speed_mbps",
               "wipe_details.performance_metrics.peak_speed_mbps"}
OptionPaths == {"device_info.model", "device_info.serial", "device_info.firmware_version",
                "device_info.interface_type", "issuer.email", "pki.ocsp_url", "pki.crl_url",
                "pki.ca_chain_pem"}
StringListPaths == {"wipe_details.errors", "wipe_details.warnings", "compliance.standards",
                    "verification.forensic_tools_used"}

\* The values an edit of the persisted JSON can give member `path` in place of `old`:
\* another value of the member's JSON type. The list of hidden areas is emptied, or given
\* one element, with fields missing or with a field HiddenAreaInfo does not have; the audit
\* trail is emptied, given one incomplete entry, or its last entry loses its null details.
\* The QR code data is a string holding a JSON object, and stays one. The hash can also be recomputed over the file's own canonical
\* bytes, and the signature remade over them with either key.
TamperValues(file, path, old) ==
    CASE path \in BoolPaths -> {~old}
      [] path \in CountPaths -> {old + 1}
      [] path \in BytePaths -> {Bytes(old[1], old[2] + 1)}
      [] path \in SpeedPaths -> {F64(1, 1), F64Zero} \ {old}
      [] path = "verification.verification_ratio" -> {Rat(0, 1), Rat(1, 1)} \ {old}
      [] path \in OptionPaths -> {<<>>, <<"X">>} \ {old}
      [] path \in StringListPaths -> {<<>>, <<"X">>} \ {old}
      [] path = "device_info.hidden_areas" ->
            {<<>>, <<[action |-> "X"]>>,
             <<[area_type |-> "DCO", start_lba |-> 0, size |-> 1,
                description |-> "X", wiped |-> FALSE, vendor |-> "X"]>>} \ {old}
      [] path = "compliance.audit_trail" ->
            {<<>>, <<[action |-> "X"]>>,
             [old EXCEPT ![Len(old)] = [timestamp |-> @.timestamp, action |-> @.action,
                                        result |-> @.result]]}
      [] path = "metadata.qr_code_data" -> IF old = <<>> THEN {<<[id |-> "X"]>>} ELSE {<<>>}
      [] path = "verification.hash" ->
            {<<>>, hash_data(CanonicalOfFile(file))} \ {old}
      [] path = "signature" ->
            {<<>>, <<"not hex">>} \cup
            {HexEncodeSignature(sign_data(CanonicalOfFile(file), sk)) : sk \in SigningKeys}
      [] OTHER -> {"", "X"} \ {old}

CertInit ==
    /\ cpc = "start"
    /\ wipe_result \in WipeResults
    /\ private_key_file \in {"sk1", NoKey, "non-UTF-8 bytes", "AAAA", "pk1"}
    /\ certificate_data = NoData
    /\ json_file = NoFile
    /\ issued_by = "none"
    /\ issue_outcome = "none"
    /\ tamper = <<>>
    /\ verifier = NoVerifier
    /\ vresult = NoResult
    /\ cli_result = NoResult
    /\ legacy_result = NoResult

\* The tail both issuers share: `?` on the key, then fs::write(json_path), then the PDF.
\* A failed key load returns before anything is built. fs::write creates or truncates the
\* file and then writes: failing at the open it leaves json_path as it was, failing later
\* it leaves a file that is cut off (empty, if nothing was written). A failed PDF leaves
\* the JSON written.
Persist(built) ==
    \E left \in {built.json_data, json_file}
                   \cup {CutOff(built.json_data, kept) : kept \in 0..MaxKept},
       pdf_ok \in BOOLEAN :
        /\ left = built.json_data \/ pdf_ok
        /\ certificate_data' = built.certificate_data
        /\ json_file' = left
        /\ issue_outcome' = IF left # built.json_data THEN "Io: json"
                            ELSE IF ~pdf_ok THEN "Io: pdf" ELSE "Ok"

\* certificates::generate_certificate(wipe_result, json_path, pdf_path)
IssueBasic ==
    /\ cpc = "start"
    /\ cpc' = "issued"
    /\ issued_by' = "basic"
    /\ LET key == load_signing_key(private_key_file) IN
       IF ~key.ok
       THEN /\ issue_outcome' = key.err
            /\ UNCHANGED <<certificate_data, json_file>>
       ELSE Persist(generate_certificate(wipe_result, key.key, IssueTime))
    /\ UNCHANGED <<wipe_result, private_key_file, tamper, verifier, vresult, cli_result, legacy_result, wvars, xvars, uvars, dvars, progress, wipe_cli>>

\* EnhancedCertificateGenerator::generate_enhanced_certificate(wipe_result, json_path,
\* pdf_path, private_key_path), called on one of the generators `gens`.
IssueEnhancedWith(gens) ==
    /\ cpc = "start"
    /\ cpc' = "issued"
    /\ issued_by' = "enhanced"
    /\ LET key == load_signing_key(private_key_file) IN
       IF ~key.ok
       THEN /\ issue_outcome' = key.err
            /\ UNCHANGED <<certificate_data, json_file>>
       ELSE \E gen \in gens :
                Persist(generate_enhanced_certificate(
                            gen, wipe_result, key.key, IssueTime, RandomU32))
    /\ UNCHANGED <<wipe_result, private_key_file, tamper, verifier, vresult, cli_result, legacy_result, wvars, xvars, uvars, dvars, progress, wipe_cli>>

\* A caller of the library issues with any of the generators.
IssueEnhanced == IssueEnhancedWith(Generators)

\* The keys SigningKey::generate(&mut OsRng) draws in generate_key_pair. The issuers and
\* the verifier treat every signing key alike, and Tamper and Verify range over both.
GeneratedKeys == {"sk1"}

\* What private_key.pem holds when the write of it stopped early: nothing, or the
\* beginning of the first line.
CutOffKeyFiles == {"", "-----BEGIN"}

\* crypto::generate_key_pair(output_dir) on the directory of private_key.pem, at any
\* moment: a fresh signing key replaces the content of the file, whatever it held. The
\* first fs::write failing at the open leaves the file as it was, failing later it leaves
\* the file cut off. (public_key.pem, written second, is read only by a verifier, which
\* Verify gives any content.)
GenerateKeyPair ==
    /\ \E signing_key \in GeneratedKeys :
       \E left \in {signing_key, private_key_file} \cup CutOffKeyFiles :
         private_key_file' = left
    /\ UNCHANGED <<cpc, wipe_result, certificate_data, json_file, issued_by, issue_outcome,
                   tamper, verifier, vresult, cli_result, legacy_result,
                   wvars, xvars, uvars, dvars, progress, wipe_cli>>

\* Somebody edits one member of the persisted certificate before it is verified.
Tamper ==
    /\ cpc = "issued"
    /\ issue_outcome = "Ok"
    /\ \E i \in DOMAIN json_file.members :
         \E v \in TamperValues(json_file, json_file.members[i][1], json_file.members[i][2]) :
            /\ json_file' = [json_file EXCEPT !.members[i][2] = v]
            /\ tamper' = <<json_file.members[i][1], v>>
    /\ cpc' = "tampered"
    /\ UNCHANGED <<wipe_result, private_key_file, certificate_data, issued_by,
                   issue_outcome, verifier, vresult, cli_result, legacy_result, wvars, xvars, uvars, dvars, progress, wipe_cli>>

\* The members of a JSON text without member `path`.
WithoutMember(members, path) ==
    LET keep(m) == m[1] # path IN SelectSeq(members, keep)

\* The persisted certificate is damaged before it is verified: one member is missing from
\* the JSON text (a truncated or hand-edited file).
Damage ==
    /\ cpc = "issued"
    /\ issue_outcome = "Ok"
    /\ \E i \in DOMAIN json_file.members :
         /\ json_file' = [json_file EXCEPT
                             !.members = WithoutMember(@, json_file.members[i][1])]
         /\ tamper' = <<json_file.members[i][1]>>
    /\ cpc' = "tampered"
    /\ UNCHANGED <<wipe_result, private_key_file, certificate_data, issued_by,
                   issue_outcome, verifier, vresult, cli_result, legacy_result, wvars, xvars, uvars, dvars, progress, wipe_cli>>

\* A member the enhanced schema does not know is added to the persisted certificate
\* before it is verified: the fingerprint member of the basic schema. serde ignores
\* unknown members, so an enhanced certificate extended this way has every member
\* either schema requires.
AddMember ==
    /\ cpc = "issued"
    /\ issue_outcome = "Ok"
    /\ ~Has(json_file.members, "verification.public_key_fingerprint")
    /\ json_file' = [json_file EXCEPT !.members =
                        Append(@, <<"verification.public_key_fingerprint",
                                    BasicPersistedFingerprint>>)]
    /\ tamper' = <<"verification.public_key_fingerprint", BasicPersistedFingerprint, "added">>
    /\ cpc' = "tampered"
    /\ UNCHANGED <<wipe_result, private_key_file, certificate_data, issued_by,
                   issue_outcome, verifier, vresult, cli_result, legacy_result, wvars, xvars, uvars, dvars, progress, wipe_cli>>

\* What a key file can hold when a certificate is verified.
PublicKeyFiles == VerifyingKeys \cup {NoKey, "AAAA", "sk1"}

\* The verifiers the CLI verify command builds that read a key file of content pk:
\* CertificateVerifier::new() beside a ./public_key.pem of that content, and
\* new().with_public_key(key_path) for a key_path to such a file, whatever
\* ./public_key.pem holds.
VerifiersReading(pk) ==
    {CertificateVerifier(pk)}
        \cup {with_public_key(CertificateVerifier(pem), pk) : pem \in PublicKeyFiles}

\* One of those verifiers, with .with_ocsp(..).with_crl(..), on json_path; the CLI verify
\* command on the same file with the same verifier as built, which has OCSP and CRL
\* enabled; and the legacy certificates::verify_certificate, again with that key file.
\* Each of the three reads the same bytes, and `enhanced` and `basic` are what the two
\* schemas make of them.
VerifyParsed(enhanced, basic) ==
    \E pk \in PublicKeyFiles, enable_ocsp \in BOOLEAN, enable_crl \in BOOLEAN :
       \E built \in VerifiersReading(pk) :
         LET v == [built EXCEPT !.enable_ocsp = enable_ocsp, !.enable_crl = enable_crl]
         IN /\ verifier' = v
            /\ vresult' = verify_parsed_certificate(v, json_file, enhanced, basic)
            /\ cli_result' = cli_verify_certificate(
                                 verify_parsed_certificate(built, json_file, enhanced, basic))
            /\ legacy_result' = legacy_verify_parsed(json_file, basic, pk)

\* The persisted file, whatever state it is in, is verified.
Verify ==
    /\ cpc \in {"issued", "tampered"}
    /\ VerifyParsed(FromJsonEnhanced(json_file), FromJsonBasic(json_file))
    /\ cpc' = "verified"
    /\ UNCHANGED <<wipe_result, private_key_file, certificate_data, json_file,
                   issued_by, issue_outcome, tamper, wvars, xvars, uvars, dvars, progress, wipe_cli>>

\* The engine's variables while only the certificate protocol runs.
EngineIdle ==
    /\ wpc = "idle"
    /\ device = NoDevice
    /\ mode = "Quick"
    /\ engine = NoEngine
    /\ attempt = 0
    /\ steps = <<>>
    /\ ops = <<>>
    /\ errors = <<>>
    /\ sleeps = <<>>
    /\ verified_sectors = -1
    /\ outcome = NoOutcome

Init == CertInit /\ EngineIdle /\ ConcIdle /\ UtilsIdle /\ LibraryIdle

Next ==
    \/ GenerateKeyPair
    \/ IssueBasic
    \/ IssueEnhanced
    \/ Tamper
    \/ Damage
    \/ AddMember
    \/ Verify

Spec == Init /\ [][Next]_vars

-----------------------------------------------------------------------------
(* Wipe engine: src/src/core/advanced.rs                                   *)

\* The low-level device operations. In the source they are placeholders that log and
\* return Ok(()); every call site propagates their error with `?`, and the model lets
\* each call succeed or fail.
Overwrite(pattern) == "overwrite_device(" \o pattern \o ")"
HardwareSecureErase == "hardware_secure_erase"
TrimDevice == "trim_device"
NvmeFormatSecure == "nvme_format(secure)"
NvmeCryptoErase == "nvme_crypto_erase"

\* The error an operation of the device can fail with.
OpErrors == {"IO error: device"}

Patterns == <<"0x00", "0xFF", "0xAA", "0x55">>

multi_pass_wipe_NoFinalZero(passes) ==
    [pass \in 1..passes |-> Overwrite(Patterns[((pass - 1) % Len(Patterns)) + 1])]

\* multi_pass_wipe: pass i writes patterns[(i - 1) % 4], then a final pass of zeros.
multi_pass_wipe(passes) ==
    [pass \in 1..passes |-> Overwrite(Patterns[((pass - 1) % Len(Patterns)) + 1])]
    \o <<Overwrite("0x00")>>

wipe_hdd(dev, m) ==
    CASE m = "Quick" -> <<Overwrite("0x00")>>
      [] m = "Full" -> multi_pass_wipe(3)
      [] m = "Advanced" ->
            IF dev.supports_secure_erase THEN <<HardwareSecureErase>> ELSE multi_pass_wipe(7)

wipe_ssd_TrimRegardless(dev, m) ==
    CASE m = "Quick" -> <<TrimDevice>>
      [] m = "Full" -> <<TrimDevice, Overwrite("0xFF")>>
      [] m = "Advanced" ->
            IF dev.supports_secure_erase THEN <<HardwareSecureErase>>
            ELSE <<TrimDevice>> \o multi_pass_wipe(3)

wipe_ssd(dev, m) ==
    CASE m = "Quick" ->
            IF dev.supports_trim THEN <<TrimDevice>> ELSE <<Overwrite("0x00")>>
      [] m = "Full" ->
            (IF dev.supports_trim THEN <<TrimDevice>> ELSE <<>>) \o <<Overwrite("0xFF")>>
      [] m = "Advanced" ->
            IF dev.supports_secure_erase THEN <<HardwareSecureErase>>
            ELSE (IF dev.supports_trim THEN <<TrimDevice>> ELSE <<>>) \o multi_pass_wipe(3)

wipe_nvme(dev, m) ==
    CASE m = "Quick" -> <<NvmeFormatSecure>>
      [] m = "Full" -> <<NvmeFormatSecure, Overwrite("0xFF")>>
      [] m = "Advanced" -> <<NvmeCryptoErase>>

wipe_usb_HardwareWhenSupported(dev, m) ==
    CASE m = "Quick" -> <<Overwrite("0x00")>>
      [] m = "Full" -> multi_pass_wipe(3)
      [] m = "Advanced" ->
            IF dev.supports_secure_erase THEN <<HardwareSecureErase>> ELSE multi_pass_wipe(7)

wipe_usb(dev, m) ==
    CASE m = "Quick" -> <<Overwrite("0x00")>>
      [] m = "Full" -> multi_pass_wipe(3)
      [] m = "Advanced" -> multi_pass_wipe(7)

wipe_generic(dev, m) ==
    CASE m = "Quick" -> <<Overwrite("0x00")>>
      [] m = "Full" -> multi_pass_wipe(3)
      [] m = "Advanced" -> multi_pass_wipe(5)

\* perform_wipe_operation: the operations one attempt runs, in order, each one run only
\* if the ones before it returned Ok.
perform_wipe_operation(dev, m) ==
    CASE dev.device_type = "HDD" -> wipe_hdd(dev, m)
      [] dev.device_type = "SSD" -> wipe_ssd(dev, m)
      [] dev.device_type = "NVMe" -> wipe_nvme(dev, m)
      [] dev.device_type = "USB" -> wipe_usb(dev, m)
      [] dev.device_type = "Unknown" -> wipe_generic(dev, m)

\* let sample_count = 100
SampleCount == 100

\* a >= b for rationals with positive denominators
RatGe(a, b) == a[1] * b[2] >= b[1] * a[2]

verify_device_wipe_StrictThreshold(verified) ==
    ~RatGe(Rat(95, 100), Rat(verified, SampleCount))

\* The tail of verify_device_wipe: verification_ratio = verified_sectors / sample_count,
\* passed = verification_ratio >= 0.95. The f64 quotient is the correctly rounded value
\* of verified / 100 and the literal 0.95 the correctly rounded 95 / 100, so comparing
\* the exact rationals gives the same answer. In the source the sector read is a
\* placeholder and every sample counts as erased; here `verified` is what the reads gave.
verify_device_wipe(verified) ==
    RatGe(Rat(verified, SampleCount), Rat(95, 100))

\* tokio::time::sleep(Duration::from_secs(5))
BackoffSeconds == 5

\* The largest max_retries an engine of the model is configured with (new() sets 3).
MaxRetriesBound == 3

\* AdvancedWipeEngine: new() and the public fields a caller may set.
Engines == {
    [verify_after_wipe |-> v, generate_hash |-> TRUE, max_retries |-> r] :
    v \in BOOLEAN, r \in 0..MaxRetriesBound }

\* Sizes of the devices the engine erases: 0 bytes (what the Android probe reports) and
\* two sectors.
EngineSizes == {Bytes(0, 0), Bytes(0, 1024)}

EngineDevices == {
    [path |-> "/dev/sdx", name |-> "Disk", size |-> s, device_type |-> t,
     model |-> <<>>, serial |-> <<>>, supports_secure_erase |-> se, supports_trim |-> tr,
     hidden_areas |-> <<>>] :
    s \in EngineSizes, t \in DeviceTypes, se \in BOOLEAN, tr \in BOOLEAN }

\* errors.push(format!("Attempt {} failed: {}", attempt, e))
RecordFailure(errs, n, e) == Append(errs, AttemptMessage(n, e))

\* SecureEraseError::WipeFailed(format!("All {} wipe attempts failed", max_retries)):
\* the payload as the sequence of its lines of text.
WipeFailed(max_retries) ==
    [kind |-> "WipeFailed",
     lines |-> <<"All " \o ToString(max_retries) \o " wipe attempts failed">>]

\* Whole seconds the wall clock may advance during a call beside the backoff sleeps.
MaxElapsed == 1

\* SystemTime::now() when the retry loop has ended: the wall clock in whole seconds, and
\* whether it then stands earlier within its second than it stood within the second of
\* start_time. The clock has run through the backoff sleeps and the erase operations, or
\* has been set back since the call began, by less than it ran or by more.
ClockReadings(slept) ==
    [secs : (StartTime - 1)..(StartTime + BackoffSeconds * Len(slept) + MaxElapsed),
     earlier_in_second : BOOLEAN]

\* end_time.duration_since(start_time).map_err(|e| SecureEraseError::Io(..)), then
\* as_secs(): an error if end_time is the earlier of the two, else the whole seconds
\* between them.
duration_since(end_time, start_time) ==
    LET secs == end_time.secs - start_time - (IF end_time.earlier_in_second THEN 1 ELSE 0)
    IN IF secs < 0
       THEN [ok |-> FALSE,
             err |-> [kind |-> "Io",
                      lines |-> <<"second time provided was later than self">>]]
       ELSE [ok |-> TRUE, secs |-> secs]

\* Ok(WipeResult { .. }) at the end of secure_erase_with_verification.
WipeResult(dev, m, errs, end_time, verification_passed) ==
    [device |-> dev, mode |-> m,
     start_time |-> StartTime,
     end_time |-> end_time.secs,
     duration_seconds |-> duration_since(end_time, StartTime).secs,
     bytes_written |-> dev.size,
     verification_passed |-> verification_passed,
     errors |-> errs]

WipeInit ==
    /\ wpc = "loop"
    /\ device \in EngineDevices
    /\ mode \in EraseModes
    /\ engine \in Engines
    /\ attempt = 0
    /\ steps = <<>>
    /\ ops = <<>>
    /\ errors = <<>>
    /\ sleeps = <<>>
    /\ verified_sectors = -1
    /\ outcome = NoOutcome

BeginAttempt_Unbounded ==
    /\ wpc = "loop"
    /\ attempt' = attempt + 1
    /\ steps' = perform_wipe_operation(device, mode)
    /\ ops' = <<>>
    /\ wpc' = "running"
    /\ UNCHANGED <<device, mode, engine, errors, sleeps, verified_sectors, outcome, cvars, xvars, uvars, dvars, progress, wipe_cli>>

BeginAttempt_ResumesAtFailedStep ==
    /\ wpc = "loop"
    /\ attempt < engine.max_retries
    /\ attempt' = attempt + 1
    /\ steps' = SubSeq(perform_wipe_operation(device, mode), Len(ops) + 1,
                       Len(perform_wipe_operation(device, mode)))
    /\ ops' = ops
    /\ wpc' = "running"
    /\ UNCHANGED <<device, mode, engine, errors, sleeps, verified_sectors, outcome, cvars, xvars, uvars, dvars, progress, wipe_cli>>

\* for attempt in 1..=self.max_retries: the next iteration calls perform_wipe_operation.
BeginAttempt ==
    /\ wpc = "loop"
    /\ attempt < engine.max_retries
    /\ attempt' = attempt + 1
    /\ steps' = perform_wipe_operation(device, mode)
    /\ ops' = <<>>
    /\ wpc' = "running"
    /\ UNCHANGED <<device, mode, engine, errors, sleeps, verified_sectors, outcome, cvars, xvars, uvars, dvars, progress, wipe_cli>>

\* The next operation of the attempt returns Ok(()).
OpSucceeds ==
    /\ wpc = "running"
    /\ steps # <<>>
    /\ ops' = Append(ops, Head(steps))
    /\ steps' = Tail(steps)
    /\ UNCHANGED <<wpc, device, mode, engine, attempt, errors, sleeps, verified_sectors,
                   outcome, cvars, xvars, uvars, dvars, progress, wipe_cli>>

OpFails_AlwaysBackoff ==
    /\ wpc = "running"
    /\ steps # <<>>
    /\ \E e \in OpErrors : errors' = RecordFailure(errors, attempt, e)
    /\ steps' = <<>>
    /\ wpc' = "backoff"
    /\ UNCHANGED <<device, mode, engine, attempt, ops, sleeps, verified_sectors, outcome,
                   cvars, xvars, uvars, dvars, progress, wipe_cli>>

\* The next operation returns Err(e): `?` ends the attempt, the Err arm records it and
\* the loop sleeps unless this was the last attempt.
OpFails ==
    /\ wpc = "running"
    /\ steps # <<>>
    /\ \E e \in OpErrors : errors' = RecordFailure(errors, attempt, e)
    /\ steps' = <<>>
    /\ wpc' = IF attempt < engine.max_retries THEN "backoff" ELSE "loop"
    /\ UNCHANGED <<device, mode, engine, attempt, ops, sleeps, verified_sectors, outcome,
                   cvars, xvars, uvars, dvars, progress, wipe_cli>>

\* tokio::time::sleep(5 s) between attempts.
Backoff ==
    /\ wpc = "backoff"
    /\ sleeps' = Append(sleeps, attempt)
    /\ wpc' = "loop"
    /\ UNCHANGED <<device, mode, engine, attempt, steps, ops, errors, verified_sectors,
                   outcome, cvars, xvars, uvars, dvars, progress, wipe_cli>>

\* perform_wipe_operation returned Ok(()): wipe_successful = true; break.
AttemptSucceeds ==
    /\ wpc = "running"
    /\ steps = <<>>
    /\ wpc' = "succeeded"
    /\ UNCHANGED <<device, mode, engine, attempt, steps, ops, errors, sleeps,
                   verified_sectors, outcome, cvars, xvars, uvars, dvars, progress, wipe_cli>>

\* The loop ended with wipe_successful false: return Err(WipeFailed(..)).
AllAttemptsFailed ==
    /\ wpc = "loop"
    /\ attempt = engine.max_retries
    /\ outcome' = [ok |-> FALSE, err |-> WipeFailed(engine.max_retries)]
    /\ wpc' = "failed"
    /\ UNCHANGED <<device, mode, engine, attempt, steps, ops, errors, sleeps,
                   verified_sectors, cvars, xvars, uvars, dvars, progress, wipe_cli>>

VerifyAndReturn_RetriesOnFailure ==
    /\ wpc = "succeeded"
    /\ engine.verify_after_wipe
    /\ ~SectorCountIsZero(device.size)
    /\ \E end_time \in ClockReadings(sleeps), verified \in 0..SampleCount :
         /\ duration_since(end_time, StartTime).ok
         /\ verified_sectors' = verified
         /\ IF verify_device_wipe(verified) \/ attempt >= engine.max_retries
            THEN /\ outcome' = [ok |-> TRUE,
                                result |-> WipeResult(device, mode, errors, end_time,
                                                      verify_device_wipe(verified))]
                 /\ wpc' = "done"
            ELSE /\ outcome' = outcome
                 /\ wpc' = "loop"
    /\ UNCHANGED <<device, mode, engine, attempt, steps, ops, errors, sleeps, cvars, xvars, uvars, dvars, progress, wipe_cli>>

\* The clock is read and has not gone back; verify_after_wipe: verify_device_wipe samples
\* sample_count sectors, then Ok(WipeResult). verify_device_wipe has no Err return, so
\* the Err arm of the match never runs.
VerifyAndReturnWith(counts) ==
    /\ wpc = "succeeded"
    /\ engine.verify_after_wipe
    /\ ~SectorCountIsZero(device.size)
    /\ \E end_time \in ClockReadings(sleeps), verified \in counts :
         /\ duration_since(end_time, StartTime).ok
         /\ verified_sectors' = verified
         /\ outcome' = [ok |-> TRUE,
                        result |-> WipeResult(device, mode, errors, end_time,
                                              verify_device_wipe(verified))]
    /\ wpc' = "done"
    /\ UNCHANGED <<device, mode, engine, attempt, steps, ops, errors, sleeps, cvars, xvars, uvars, dvars, progress, wipe_cli>>

\* Any number of the samples may read as erased.
VerifyAndReturn == VerifyAndReturnWith(0..SampleCount)

\* The clock is read and has gone back: duration_since fails and `?` returns its error
\* as SecureEraseError::Io, before any verification.
ClockWentBack ==
    /\ wpc = "succeeded"
    /\ \E end_time \in ClockReadings(sleeps) :
         /\ ~duration_since(end_time, StartTime).ok
         /\ outcome' = [ok |-> FALSE, err |-> duration_since(end_time, StartTime).err]
    /\ wpc' = "clock_error"
    /\ UNCHANGED <<device, mode, engine, attempt, steps, ops, errors, sleeps,
                   verified_sectors, cvars, xvars, uvars, dvars, progress, wipe_cli>>

\* verify_device_wipe on a device smaller than one sector: the first sample computes
\* rand::random::<u64>() % (device.size / 512), a remainder by zero, which panics.
VerifyPanics ==
    /\ wpc = "succeeded"
    /\ engine.verify_after_wipe
    /\ SectorCountIsZero(device.size)
    /\ \E end_time \in ClockReadings(sleeps) : duration_since(end_time, StartTime).ok
    /\ outcome' = [ok |-> FALSE, err |-> [kind |-> "panic",
                   lines |-> <<"attempt to calculate the remainder with a divisor of zero">>]]
    /\ wpc' = "panicked"
    /\ UNCHANGED <<device, mode, engine, attempt, steps, ops, errors, sleeps,
                   verified_sectors, cvars, xvars, uvars, dvars, progress, wipe_cli>>

\* The clock is read and has not gone back; verify_after_wipe is false:
\* verification_passed = true without sampling.
ReturnUnverified ==
    /\ wpc = "succeeded"
    /\ ~engine.verify_after_wipe
    /\ \E end_time \in ClockReadings(sleeps) :
         /\ duration_since(end_time, StartTime).ok
         /\ outcome' = [ok |-> TRUE,
                        result |-> WipeResult(device, mode, errors, end_time, TRUE)]
    /\ wpc' = "done"
    /\ UNCHANGED <<device, mode, engine, attempt, steps, ops, errors, sleeps,
                   verified_sectors, cvars, xvars, uvars, dvars, progress, wipe_cli>>

\* The certificate protocol's variables while only the engine runs.
CertIdle ==
    /\ cpc = "idle"
    /\ wipe_result = NoResult
    /\ private_key_file = NoKey
    /\ certificate_data = NoData
    /\ json_file = NoFile
    /\ issued_by = "none"
    /\ issue_outcome = "none"
    /\ tamper = <<>>
    /\ verifier = NoVerifier
    /\ vresult = NoResult
    /\ cli_result = NoResult
    /\ legacy_result = NoResult

WipeNext ==
    \/ BeginAttempt
    \/ OpSucceeds
    \/ OpFails
    \/ Backoff
    \/ AttemptSucceeds
    \/ AllAttemptsFailed
    \/ ClockWentBack
    \/ VerifyAndReturn
    \/ VerifyPanics
    \/ ReturnUnverified

WipeSpecInit == WipeInit /\ CertIdle /\ ConcIdle /\ UtilsIdle /\ LibraryIdle

WipeSpec == WipeSpecInit /\ [][WipeNext]_vars

-----------------------------------------------------------------------------
(* Properties of the certificate protocol, checked under Spec               *)

\* The signature member of the certificate the verifier read, decoded.
FileSignature == DecodeSignature(Get(json_file.members, "signature"))

\* The persisted certificate reached the verifier as the issuer wrote it, and the
\* verifier holds the verifying key of the signing key.
IssuedThenVerifiedWithMatchingKey ==
    /\ cpc = "verified"
    /\ issue_outcome = "Ok"
    /\ tamper = <<>>
    /\ verifier.public_key_file = FileSignature.signature.signer

\* C1: for every WipeResult, a certificate issued by generate_enhanced_certificate and
\* then verified with the matching verifying key yields is_valid == true.
C1_EnhancedIssuedThenVerifiedIsValid ==
    (IssuedThenVerifiedWithMatchingKey /\ issued_by = "enhanced")
        => (vresult.ok /\ vresult.result.is_valid)

\* C2: for every WipeResult, a basic certificate written by generate_certificate and then
\* verified with the matching verifying key yields signature_valid and hash_valid.
C2_BasicIssuedThenVerifiedSignatureAndHash ==
    (IssuedThenVerifiedWithMatchingKey /\ issued_by = "basic")
        => (vresult.ok /\ vresult.result.signature_valid /\ vresult.result.hash_valid)

\* C3: in both issuers every member of the persisted certificate other than
\* verification.hash and signature has the value it had in the structure that was hashed
\* and signed, so the canonical bytes the verifier rebuilds are the bytes that were signed.
C3_PersistedMembersEqualSignedMembers ==
    (cpc = "issued" /\ issue_outcome = "Ok") =>
        /\ \A i \in DOMAIN json_file.members :
              json_file.members[i][1] \notin {"verification.hash", "signature"}
                  => json_file.members[i] = certificate_data.members[i]
        /\ CanonicalOfFile(json_file) = certificate_data

\* C4: changing device_info.size, or any other member the canonical bytes cover, in a
\* persisted certificate before it is verified yields hash_valid == false.
C4_AnyEditedMemberBreaksHash ==
    (/\ cpc = "verified"
     /\ vresult.ok
     /\ tamper # <<>>
     /\ tamper[1] \notin {"verification.hash", "signature"})
        => ~vresult.result.hash_valid

\* C5: verifying a certificate with a verifying key that is not the one of the key that
\* made its signature yields signature_valid == false and is_valid == false.
C5_NonMatchingKeyIsInvalid ==
    (/\ cpc = "verified"
     /\ vresult.ok
     /\ FileSignature.ok
     /\ FileSignature.signature.signer # verifier.public_key_file)
        => (~vresult.result.signature_valid /\ ~vresult.result.is_valid)

\* C5 happens: a loadable key that is not the signer's, on a certificate whose signature
\* is over exactly the canonical bytes the verifier rebuilds (the signer's key would
\* accept it).
C5_Witness ==
    /\ cpc = "verified"
    /\ vresult.ok
    /\ verifier.public_key_file \in VerifyingKeys
    /\ FileSignature.ok
    /\ FileSignature.signature.signer # verifier.public_key_file
    /\ FileSignature.signature.data = CanonicalOfFile(json_file)
    /\ ~vresult.result.signature_valid

\* C9: in every VerificationResult, of either schema, is_valid is true exactly when
\* signature_valid, hash_valid and compliance_valid are all true.
C9_IsValidIsTheConjunction ==
    (cpc = "verified" /\ vresult.ok) =>
        (vresult.result.is_valid <=>
            (/\ vresult.result.signature_valid
             /\ vresult.result.hash_valid
             /\ vresult.result.compliance_valid))

\* C10: for a basic certificate compliance_valid is true whenever the verifying key loads,
\* whatever wipe_details.verification_passed and wipe_details.errors hold.
C10_BasicComplianceAlwaysTrue ==
    (/\ cpc = "verified"
     /\ vresult.ok
     /\ vresult.schema = "basic"
     /\ load_verifying_key(verifier.public_key_file).ok)
        => vresult.result.compliance_valid

\* The verifier ran on a file that parsed, and the key file it was given holds a key.
VerifiedWithLoadedKey ==
    /\ cpc = "verified"
    /\ vresult.ok
    /\ load_verifying_key(verifier.public_key_file).ok

\* C11: if the verifying key cannot be loaded, verify_certificate (either schema) returns
\* Ok with a result whose errors list is non-empty and whose is_valid, signature_valid,
\* hash_valid and compliance_valid are all false; no hard error is returned and none of
\* the checks runs (nothing but the one key error is recorded).
C11_KeyLoadFailureReturnsEarly ==
    (/\ cpc = "verified"
     /\ verifier.public_key_file \notin VerifyingKeys
     /\ json_file # NoFile
     /\ FromJsonEnhanced(json_file).ok \/ FromJsonBasic(json_file).ok)
        => /\ vresult.ok
           /\ vresult.result.errors # <<>>
           /\ ~vresult.result.is_valid
           /\ ~vresult.result.signature_valid
           /\ ~vresult.result.hash_valid
           /\ ~vresult.result.compliance_valid
           /\ ~load_verifying_key(verifier.public_key_file).ok
           /\ vresult.result =
                 [DefaultVerificationResult EXCEPT
                     !.errors = <<"Failed to load public key: "
                                     \o load_verifying_key(verifier.public_key_file).err>>]

\* C11 happens: no key, on an enhanced certificate that the compliance check and the OCSP
\* check would have marked had they run.
C11_Witness ==
    /\ cpc = "verified"
    /\ vresult.ok
    /\ vresult.schema = "enhanced"
    /\ verifier.public_key_file = NoKey
    /\ verifier.enable_ocsp
    /\ Opt(json_file.members, "pki.ocsp_url") # <<>>
    /\ check_compliance_enhanced(FromJsonEnhanced(json_file).certificate)
    /\ ~vresult.result.compliance_valid
    /\ ~vresult.result.verification_details.ocsp_checked

\* C12: verify_certificate tries the enhanced schema first and the basic schema only if
\* the enhanced parse fails; it returns a hard error exactly when the file is unreadable
\* or both parses fail; a certificate as persisted by an issuer is checked by the path of
\* that issuer's schema. (A text the issuer's write left cut off is a file on which both
\* parses fail.)
C12_EnhancedFirstThenBasicElseHardError ==
    (cpc = "verified") =>
        IF json_file = NoFile THEN ~vresult.ok
        ELSE LET e == FromJsonEnhanced(json_file)
                 b == FromJsonBasic(json_file)
             IN /\ vresult.ok <=> (e.ok \/ b.ok)
                /\ e.ok => /\ vresult.schema = "enhanced"
                           /\ vresult.result =
                                 verify_enhanced_certificate(verifier, e.certificate)
                /\ (~e.ok /\ b.ok) =>
                       /\ vresult.schema = "basic"
                       /\ vresult.result = verify_basic_certificate(verifier, b.certificate)
                /\ (tamper = <<>> /\ ~json_file.cut_off) =>
                       (vresult.ok /\ vresult.schema = issued_by)

\* C12 happens: a file that parses under both schemas was checked by the enhanced path.
C12_Witness ==
    /\ cpc = "verified"
    /\ json_file # NoFile
    /\ FromJsonEnhanced(json_file).ok
    /\ FromJsonBasic(json_file).ok
    /\ vresult.ok
    /\ vresult.schema = "enhanced"

\* What the compliance step of the path that ran computes from the certificate read.
ExpectedCompliance ==
    /\ Get(json_file.members, "wipe_details.verification_passed")
    /\ Get(json_file.members, "wipe_details.errors") = <<>>
    /\ vresult.schema = "enhanced" => Get(json_file.members, "compliance.standards") # <<>>

\* C13: if the signature member is not valid hex or not a well-formed signature,
\* verify_certificate still returns Ok with signature_valid == false and an entry in
\* errors, and the hash check and the compliance check are still evaluated and recorded.
C13_MalformedSignatureIsRecordedNotFatal ==
    (/\ cpc = "verified"
     /\ load_verifying_key(verifier.public_key_file).ok
     /\ json_file # NoFile
     /\ FromJsonEnhanced(json_file).ok \/ FromJsonBasic(json_file).ok
     /\ ~FileSignature.ok)
        => /\ vresult.ok
           /\ ~vresult.result.signature_valid
           /\ ~vresult.result.is_valid
           /\ \E i \in DOMAIN vresult.result.errors :
                 vresult.result.errors[i] =
                     "Signature verification failed: "
                         \o CertificateVerificationFailed(FileSignature.err)
           /\ vresult.result.hash_valid <=>
                 (hash_data(CanonicalOfFile(json_file))
                     = Get(json_file.members, "verification.hash"))
           /\ vresult.result.hash_valid <=> (vresult.result.warnings = <<>>)
           /\ vresult.result.compliance_valid <=> ExpectedCompliance

\* C13 happens: a signature that is not hex, on a certificate for which the compliance
\* check passed and the hash check recorded its warning.
C13_Witness ==
    /\ VerifiedWithLoadedKey
    /\ Get(json_file.members, "signature") = <<"not hex">>
    /\ ~vresult.result.signature_valid
    /\ vresult.result.compliance_valid
    /\ vresult.result.warnings = <<"Hash verification failed">>

\* The three conditions of check_compliance_enhanced, on the certificate the verifier read.
ThreeConditions ==
    /\ Get(json_file.members, "wipe_details.verification_passed")
    /\ Get(json_file.members, "wipe_details.errors") = <<>>
    /\ Get(json_file.members, "compliance.standards") # <<>>

\* C14 as stated: for an enhanced certificate compliance_valid is true if and only if
\* wipe_details.verification_passed is true, wipe_details.errors is empty and
\* compliance.standards is non-empty, whether or not the verifying key loads.
C14_EnhancedComplianceIsTheThreeConditions ==
    (cpc = "verified" /\ vresult.ok /\ vresult.schema = "enhanced") =>
        (vresult.result.compliance_valid <=> ThreeConditions)

\* C14, amended: for an enhanced certificate checked with a verifying key that loads,
\* compliance_valid is true if and only if wipe_details.verification_passed is true,
\* wipe_details.errors is empty and compliance.standards is non-empty; when the key does
\* not load, compliance_valid is false whatever the three hold.
C14_EnhancedComplianceWhenKeyLoads ==
    (cpc = "verified" /\ vresult.ok /\ vresult.schema = "enhanced") =>
        (vresult.result.compliance_valid <=>
            (load_verifying_key(verifier.public_key_file).ok /\ ThreeConditions))

\* C14 happens: verification passed and no errors, but the standards list is empty, and
\* compliance_valid is false.
C14_Witness ==
    /\ VerifiedWithLoadedKey
    /\ vresult.schema = "enhanced"
    /\ Get(json_file.members, "wipe_details.verification_passed")
    /\ Get(json_file.members, "wipe_details.errors") = <<>>
    /\ Get(json_file.members, "compliance.standards") = <<>>
    /\ ~vresult.result.compliance_valid

\* The result the same verifier gives the same file with both revocation checks off.
WithoutRevocationChecks ==
    verify_certificate([verifier EXCEPT !.enable_ocsp = FALSE, !.enable_crl = FALSE],
                       json_file).result

\* The four verdicts of vresult are those of `result`.
SameVerdictsAs(result) ==
    /\ vresult.result.signature_valid = result.signature_valid
    /\ vresult.result.hash_valid = result.hash_valid
    /\ vresult.result.compliance_valid = result.compliance_valid
    /\ vresult.result.is_valid = result.is_valid

\* C15: when the verifying key loads, ocsp_checked is true exactly when the certificate is
\* enhanced, enable_ocsp is set and pki.ocsp_url is present, and crl_checked exactly when
\* it is enhanced, enable_crl is set and pki.crl_url is present; neither flag is set for a
\* basic certificate, and the flags change none of signature_valid, hash_valid,
\* compliance_valid and is_valid.
C15_RevocationFlagsOnlyMarkChecked ==
    VerifiedWithLoadedKey =>
        /\ vresult.result.verification_details.ocsp_checked <=>
              (/\ vresult.schema = "enhanced"
               /\ verifier.enable_ocsp
               /\ Opt(json_file.members, "pki.ocsp_url") # <<>>)
        /\ vresult.result.verification_details.crl_checked <=>
              (/\ vresult.schema = "enhanced"
               /\ verifier.enable_crl
               /\ Opt(json_file.members, "pki.crl_url") # <<>>)
        /\ SameVerdictsAs(WithoutRevocationChecks)

\* C15 happens: both checks enabled on an enhanced certificate that names an OCSP URL and
\* no CRL URL; only ocsp_checked is set.
C15_Witness ==
    /\ VerifiedWithLoadedKey
    /\ vresult.schema = "enhanced"
    /\ verifier.enable_ocsp
    /\ verifier.enable_crl
    /\ Opt(json_file.members, "pki.ocsp_url") # <<>>
    /\ Opt(json_file.members, "pki.crl_url") = <<>>
    /\ vresult.result.verification_details.ocsp_checked
    /\ ~vresult.result.verification_details.crl_checked

-----------------------------------------------------------------------------
(* Properties of the wipe engine, checked under WipeSpec                    *)

\* C6: when the erase fails on the first k attempts and succeeds on attempt k + 1, the
\* call returns a WipeResult whose errors are exactly the k messages of the failed
\* attempts, in order. ("done", "clock_error" and "panicked" are the ends a successful
\* attempt leads to; attempt is then k + 1.)
C6_RetryThenSuccessReturnsResultWithKErrors ==
    (wpc \in {"done", "clock_error", "panicked"}) =>
        /\ outcome.ok
        /\ Len(outcome.result.errors) = attempt - 1
        /\ \A n \in 1..(attempt - 1) :
              \E e \in OpErrors : outcome.result.errors[n] = AttemptMessage(n, e)

\* C7: when the erase fails on all max_retries attempts the call fails with a WipeFailed
\* error that carries the max_retries per-attempt messages, and no WipeResult is produced.
C7_ExhaustionCarriesAttemptMessages ==
    (wpc = "failed") =>
        /\ ~outcome.ok
        /\ outcome.err.kind = "WipeFailed"
        /\ Len(errors) = engine.max_retries
        /\ \A n \in 1..engine.max_retries :
              \E i \in DOMAIN outcome.err.lines : outcome.err.lines[i] = errors[n]

\* C8: post-wipe verification sets verification_passed to true exactly when at least 95
\* of the 100 sampled sectors read as erased.
C8_ThresholdIsInclusiveAt95 ==
    (wpc = "done" /\ engine.verify_after_wipe) =>
        (outcome.result.verification_passed <=> verified_sectors >= 95)

\* C8 happens: exactly 95 of 100 samples read as erased and the flag is true.
C8_Witness ==
    /\ wpc = "done"
    /\ engine.verify_after_wipe
    /\ verified_sectors = 95
    /\ outcome.result.verification_passed

\* The operations of the attempt in progress or just ended with Ok: those that returned
\* Ok followed by those still to run.
AttemptPlan == ops \o steps

\* An n-pass overwrite as the strategy matrix names it, written out: the patterns of the
\* passes followed by the closing pass of zeros.
ThreePass == <<Overwrite("0x00"), Overwrite("0xFF"), Overwrite("0xAA"), Overwrite("0x00")>>
FivePass == <<Overwrite("0x00"), Overwrite("0xFF"), Overwrite("0xAA"), Overwrite("0x55"),
              Overwrite("0x00"), Overwrite("0x00")>>
SevenPass == <<Overwrite("0x00"), Overwrite("0xFF"), Overwrite("0xAA"), Overwrite("0x55"),
               Overwrite("0x00"), Overwrite("0xFF"), Overwrite("0xAA"), Overwrite("0x00")>>

\* The strategy matrix. `trim` is the TRIM step of the SSD Full and SSD Advanced cells.
StrategyCell(t, m, secure_erase, supports_trim, trim) ==
    CASE t = "HDD" /\ m = "Quick" -> <<Overwrite("0x00")>>
      [] t = "HDD" /\ m = "Full" -> ThreePass
      [] t = "HDD" /\ m = "Advanced" ->
            IF secure_erase THEN <<HardwareSecureErase>> ELSE SevenPass
      [] t = "SSD" /\ m = "Quick" ->
            IF supports_trim THEN <<TrimDevice>> ELSE <<Overwrite("0x00")>>
      [] t = "SSD" /\ m = "Full" -> trim \o <<Overwrite("0xFF")>>
      [] t = "SSD" /\ m = "Advanced" ->
            IF secure_erase THEN <<HardwareSecureErase>> ELSE trim \o ThreePass
      [] t = "NVMe" /\ m = "Quick" -> <<NvmeFormatSecure>>
      [] t = "NVMe" /\ m = "Full" -> <<NvmeFormatSecure, Overwrite("0xFF")>>
      [] t = "NVMe" /\ m = "Advanced" -> <<NvmeCryptoErase>>
      [] t = "USB" /\ m = "Quick" -> <<Overwrite("0x00")>>
      [] t = "USB" /\ m = "Full" -> ThreePass
      [] t = "USB" /\ m = "Advanced" -> SevenPass
      [] t = "Unknown" /\ m = "Quick" -> <<Overwrite("0x00")>>
      [] t = "Unknown" /\ m = "Full" -> ThreePass
      [] t = "Unknown" /\ m = "Advanced" -> FivePass

\* C16 as stated: for every device type, mode and pair of capability flags the operations
\* of one attempt are the strategy-matrix cell, in which SSD Full is TRIM then one 0xFF
\* overwrite and SSD Advanced without hardware erase is TRIM then 3-pass.
C16_AttemptRunsTheMatrixCell ==
    (wpc \in {"running", "succeeded"}) =>
        AttemptPlan = StrategyCell(device.device_type, mode, device.supports_secure_erase,
                                   device.supports_trim, <<TrimDevice>>)

\* C16 amended: the same, where the TRIM step of SSD Full and of SSD Advanced is run only
\* if the device supports TRIM and is left out otherwise.
C16_AttemptRunsTheMatrixCellTrimIfSupported ==
    (wpc \in {"running", "succeeded"}) =>
        AttemptPlan = StrategyCell(device.device_type, mode, device.supports_secure_erase,
                                   device.supports_trim,
                                   IF device.supports_trim THEN <<TrimDevice>> ELSE <<>>)

\* C16 happens: an attempt on a USB device that supports hardware secure erase, in
\* Advanced mode, ran to its end as the 7-pass overwrite.
C16_Witness ==
    /\ wpc = "succeeded"
    /\ device.device_type = "USB"
    /\ device.supports_secure_erase
    /\ mode = "Advanced"
    /\ ops = SevenPass

\* The device lacks a capability the branch of its wipe procedure would use: hardware
\* secure erase in HDD and SSD Advanced, TRIM in every SSD branch that is not the
\* hardware erase.
LacksCapability ==
    \/ device.device_type \in {"HDD", "SSD"} /\ mode = "Advanced"
          /\ ~device.supports_secure_erase
    \/ device.device_type = "SSD" /\ ~device.supports_trim
          /\ ~(mode = "Advanced" /\ device.supports_secure_erase)

\* C17: when a device lacks a capability a branch would use, the attempt runs the
\* software overwrite path instead (no operation of the missing capability, at least one
\* overwrite), and the missing capability by itself fails no attempt and adds no entry to
\* the errors: every entry is the message of an operation that returned an error.
C17_MissingCapabilityFallsBackSilently ==
    (wpc \notin {"idle"} /\ LacksCapability) =>
        /\ (wpc \in {"running", "succeeded"}) =>
              /\ ~device.supports_secure_erase =>
                    \A i \in DOMAIN AttemptPlan : AttemptPlan[i] # HardwareSecureErase
              /\ ~device.supports_trim =>
                    \A i \in DOMAIN AttemptPlan : AttemptPlan[i] # TrimDevice
              /\ \E i \in DOMAIN AttemptPlan, pattern \in {"0x00", "0xFF"} :
                    AttemptPlan[i] = Overwrite(pattern)
              /\ Len(errors) = attempt - 1
        /\ \A n \in DOMAIN errors : \E e \in OpErrors : errors[n] = AttemptMessage(n, e)
        /\ (wpc = "done") =>
              /\ outcome.ok
              /\ outcome.result.errors = errors
              /\ Len(errors) = attempt - 1

\* C17 happens: an SSD with neither hardware secure erase nor TRIM, Advanced mode; the
\* first attempt ran the 3-pass overwrite and the call returned with no error entry.
C17_Witness ==
    /\ wpc = "done"
    /\ device.device_type = "SSD"
    /\ ~device.supports_secure_erase
    /\ ~device.supports_trim
    /\ mode = "Advanced"
    /\ attempt = 1
    /\ ops = ThreePass
    /\ outcome.ok
    /\ outcome.result.errors = <<>>

\* The largest pass count multi_pass_wipe is checked for (the engine asks for 3, 5 and 7).
MaxPasses == 9

\* The pattern the claim gives pass i: position (i - 1) mod 4 of [0x00, 0xFF, 0xAA, 0x55].
PassPattern(i) ==
    CASE (i - 1) % 4 = 0 -> "0x00"
      [] (i - 1) % 4 = 1 -> "0xFF"
      [] (i - 1) % 4 = 2 -> "0xAA"
      [] (i - 1) % 4 = 3 -> "0x55"

\* The attempt numbered `attempt` has ended with an error.
CurrentAttemptFailed == attempt >= 1 /\ Len(errors) = attempt

\* The procedure of the device and mode is one multi_pass_wipe(n) and nothing else.
MultiPassCount ==
    CASE device.device_type \in {"HDD", "USB", "Unknown"} /\ mode = "Full" -> 3
      [] device.device_type = "HDD" /\ mode = "Advanced" /\ ~device.supports_secure_erase -> 7
      [] device.device_type = "SSD" /\ mode = "Advanced" /\ ~device.supports_secure_erase
            /\ ~device.supports_trim -> 3
      [] device.device_type = "USB" /\ mode = "Advanced" -> 7
      [] device.device_type = "Unknown" /\ mode = "Advanced" -> 5
      [] OTHER -> 0

\* C18: multi_pass_wipe(device, n) performs, when no pass fails, exactly n + 1 overwrites
\* in order: pass i (1 <= i <= n) writes the pattern at position (i - 1) mod 4 of
\* [0x00, 0xFF, 0xAA, 0x55] and the last overwrite is all-zero; if a pass fails, no later
\* pass, the final zero pass included, is performed in that attempt.
C18_MultiPassOrderAndStopOnFailure ==
    /\ \A n \in 0..MaxPasses :
          /\ Len(multi_pass_wipe(n)) = n + 1
          /\ \A i \in 1..n : multi_pass_wipe(n)[i] = Overwrite(PassPattern(i))
          /\ multi_pass_wipe(n)[n + 1] = Overwrite("0x00")
    /\ (wpc # "idle" /\ MultiPassCount > 0 /\ attempt >= 1) =>
          /\ Len(ops) <= MultiPassCount + 1
          /\ \A i \in DOMAIN ops :
                ops[i] = Overwrite(IF i = MultiPassCount + 1 THEN "0x00" ELSE PassPattern(i))
          /\ (wpc \in {"succeeded", "done", "clock_error", "panicked"}) => Len(ops) = MultiPassCount + 1
          /\ CurrentAttemptFailed =>
                /\ Len(ops) <= MultiPassCount
                /\ steps = <<>>
                /\ wpc \in {"backoff", "loop", "failed"}

\* C18 happens: the sixth pass of a 7-pass wipe failed; the five passes before it ran in
\* the order of the cycle, and nothing after them.
C18_Witness ==
    /\ wpc = "backoff"
    /\ CurrentAttemptFailed
    /\ MultiPassCount = 7
    /\ ops = <<Overwrite("0x00"), Overwrite("0xFF"), Overwrite("0xAA"), Overwrite("0x55"),
               Overwrite("0x00")>>
    /\ steps = <<>>

\* C19: a backoff sleep happens after every failed attempt n with n < max_retries and
\* before attempt n + 1 starts, and never after the final attempt nor after a successful
\* attempt. (sleeps lists the attempts a sleep followed.)
C19_BackoffBetweenAttemptsOnly ==
    (wpc # "idle") =>
        /\ \A i \in DOMAIN sleeps : sleeps[i] = i /\ i < engine.max_retries /\ i <= Len(errors)
        /\ (wpc \in {"running", "succeeded", "done", "clock_error", "panicked"}) =>
              /\ Len(errors) = attempt - 1
              /\ Len(sleeps) = attempt - 1
        /\ (wpc = "backoff") =>
              /\ CurrentAttemptFailed
              /\ attempt < engine.max_retries
              /\ Len(sleeps) = attempt - 1
        /\ (wpc = "loop" /\ attempt >= 1) =>
              /\ CurrentAttemptFailed
              /\ Len(sleeps) = IF attempt < engine.max_retries THEN attempt ELSE attempt - 1
        /\ (wpc = "failed" /\ engine.max_retries >= 1) =>
              /\ Len(errors) = engine.max_retries
              /\ Len(sleeps) = engine.max_retries - 1

\* C19 happens: three attempts failed; the engine slept after the first and the second
\* and not after the third.
C19_Witness ==
    /\ wpc = "failed"
    /\ engine.max_retries = 3
    /\ Len(errors) = 3
    /\ sleeps = <<1, 2>>

\* C20: post-wipe verification runs only after an erase attempt has succeeded and at most
\* once per invocation; when it reports failure the engine makes no further erase attempt
\* and returns Ok with a WipeResult whose verification_passed is false. (After the
\* successful attempt the call ends without another attempt: with the WipeResult, with
\* the panic of the verification, or, the clock having gone back, with the Io error
\* before any verification.)
C20_VerificationOnceAfterSuccessNoRetry ==
    /\ [](wpc # "idle" /\ verified_sectors # -1 =>
            /\ wpc = "done"
            /\ engine.verify_after_wipe
            /\ steps = <<>>
            /\ ops = perform_wipe_operation(device, mode)
            /\ Len(errors) = attempt - 1
            /\ outcome.ok
            /\ outcome.result.errors = errors
            /\ outcome.result.verification_passed <=> verify_device_wipe(verified_sectors))
    /\ [][/\ verified_sectors' # verified_sectors =>
                (wpc = "succeeded" /\ verified_sectors = -1 /\ wpc' = "done")
          /\ wpc \in {"succeeded", "done", "clock_error", "panicked"} =>
                /\ attempt' = attempt /\ ops' = ops /\ errors' = errors
                /\ wpc' \in {"done", "clock_error", "panicked"}
                /\ wpc' = "clock_error" => verified_sectors' = -1
          /\ wpc \notin {"done", "clock_error", "panicked"}]_vars

\* C20 happens: the second attempt succeeded, 94 of 100 samples read as erased, and the
\* call returned Ok with verification_passed false after two attempts.
C20_Witness ==
    /\ wpc = "done"
    /\ engine.max_retries = 3
    /\ attempt = 2
    /\ verified_sectors = 94
    /\ outcome.ok
    /\ ~outcome.result.verification_passed
    /\ Len(outcome.result.errors) = 1

-----------------------------------------------------------------------------
(* Issuance over a wider range of wipe results: IssuanceSpec                *)

\* Device sizes around the 2 TiB mark of generate_warnings and the 512-byte sector, each
\* with a wipe of zero, one or two hours, in which the f64 speeds are exact, and of 7
\* seconds, in which they are rounded; and 3 GiB wiped in 3 seconds, where the rounded
\* average falls just short of the exact 3686400.
SizesAndDurations ==
    ({Bytes(0, 0), Bytes(0, 1024), Bytes(500, 0), Bytes(LargeDeviceGiB, 0),
      Bytes(LargeDeviceGiB, 512), Bytes(LargeDeviceGiB + 1024, 0)}
         \X {0, 7, 3600, 7200})
    \cup {<<Bytes(3, 0), 3>>}

\* The WipeResult values secure_erase_with_verification can return for these devices.
IssuanceWipeResults == {
    [device |-> [path |-> "/dev/sdx", name |-> "Disk", size |-> sd[1], device_type |-> t,
                 model |-> <<>>, serial |-> <<>>,
                 supports_secure_erase |-> FALSE, supports_trim |-> FALSE,
                 hidden_areas |-> <<>>],
     mode |-> m,
     start_time |-> StartTime, end_time |-> StartTime + sd[2],
     duration_seconds |-> sd[2], bytes_written |-> sd[1],
     verification_passed |-> vp, errors |-> errs] :
    sd \in SizesAndDurations, t \in DeviceTypes, m \in EraseModes,
    vp \in BOOLEAN, errs \in {<<>>, <<AttemptMessage(1, "IO error: device")>>} }

IssuanceInit ==
    /\ cpc = "start"
    /\ wipe_result \in IssuanceWipeResults
    /\ private_key_file \in {"sk1", NoKey}
    /\ certificate_data = NoData
    /\ json_file = NoFile
    /\ issued_by = "none"
    /\ issue_outcome = "none"
    /\ tamper = <<>>
    /\ verifier = NoVerifier
    /\ vresult = NoResult
    /\ cli_result = NoResult
    /\ legacy_result = NoResult
    /\ EngineIdle
    /\ ConcIdle
    /\ UtilsIdle
    /\ LibraryIdle

IssuanceNext == GenerateKeyPair \/ IssueBasic \/ IssueEnhanced

IssuanceSpec == IssuanceInit /\ [][IssuanceNext]_vars

\* An enhanced certificate has been written for wipe_result.
EnhancedIssued ==
    /\ cpc = "issued"
    /\ issued_by = "enhanced"
    /\ json_file # NoFile
    /\ ~json_file.cut_off

\* C21: in every enhanced certificate compliance.compliance_level is determined by the
\* erase mode alone: Quick gives "Basic", Full "Standard", Advanced "High", whatever the
\* device type, the verification outcome and the recorded errors.
C21_ComplianceLevelByModeAlone ==
    EnhancedIssued =>
        Get(json_file.members, "compliance.compliance_level") =
            (CASE wipe_result.mode = "Quick" -> "Basic"
               [] wipe_result.mode = "Full" -> "Standard"
               [] wipe_result.mode = "Advanced" -> "High")

\* C21 happens: Full mode on a USB device, verification failed and an error recorded;
\* the level is "Standard".
C21_Witness ==
    /\ EnhancedIssued
    /\ wipe_result.mode = "Full"
    /\ wipe_result.device.device_type = "USB"
    /\ ~wipe_result.verification_passed
    /\ wipe_result.errors # <<>>
    /\ Get(json_file.members, "compliance.compliance_level") = "Standard"

\* C22: in every enhanced certificate compliance.audit_trail has exactly three entries in
\* this order: erase started (start timestamp), erase completed (end timestamp, result
\* the outcome of the erase, which succeeded whenever a WipeResult exists), verification
\* performed (end timestamp, result the verification outcome).
C22_AuditTrailThreeEntries ==
    EnhancedIssued =>
        LET audit_trail == Get(json_file.members, "compliance.audit_trail")
        IN /\ Len(audit_trail) = 3
           /\ audit_trail[1].action = "Wipe Operation Started"
           /\ audit_trail[1].timestamp = wipe_result.start_time
           /\ audit_trail[2].action = "Wipe Operation Completed"
           /\ audit_trail[2].timestamp = wipe_result.end_time
           /\ audit_trail[2].result = "Success"
           /\ audit_trail[3].action = "Verification Performed"
           /\ audit_trail[3].timestamp = wipe_result.end_time
           /\ audit_trail[3].result =
                  IF wipe_result.verification_passed THEN "Passed" ELSE "Failed"

\* C23: in every enhanced certificate wipe_details.warnings holds, in this order and
\* nothing else, one fixed string for each condition that holds: verification_passed is
\* false; errors is non-empty; the device size is strictly greater than 2 TiB.
C23_WarningsInFixedOrder ==
    EnhancedIssued =>
        Get(json_file.members, "wipe_details.warnings") =
            (IF ~wipe_result.verification_passed THEN <<"Device verification failed - manual inspection recommended">> ELSE <<>>)
            \o (IF wipe_result.errors # <<>> THEN <<"Errors occurred during wipe operation">> ELSE <<>>)
            \o (IF \/ wipe_result.device.size[1] > 2048
                   \/ wipe_result.device.size[1] = 2048 /\ wipe_result.device.size[2] >= 1
                THEN <<"Large device - extended verification recommended">> ELSE <<>>)

\* C23 happens: a device of exactly 2 TiB, verification failed and an error recorded: two
\* warnings and no size warning.
C23_Witness ==
    /\ EnhancedIssued
    /\ wipe_result.device.size = Bytes(2048, 0)
    /\ ~wipe_result.verification_passed
    /\ wipe_result.errors # <<>>
    /\ Get(json_file.members, "wipe_details.warnings") = <<"Device verification failed - manual inspection recommended",
             "Errors occurred during wipe operation">>

\* ((bytes / 2^30) * per_gib) / (seconds / 3600) for seconds > 0, evaluated in f64 from
\* left to right, each operation giving the f64 nearest to its exact result. per_gib is
\* the 1024.0 of calculate_performance_metrics.
SpeedFormula(bytes, seconds, per_gib) ==
    IF bytes = Bytes(0, 0) THEN F64Zero
    ELSE F64Quot(F64Times(F64Bytes(bytes, 30), per_gib), F64(seconds, 3600))

\* The three performance members of the certificate written agree with the average
\* speed ((bytes_written / 1 GiB) * per_gib) / (duration_seconds / 3600).
PerformanceMetricsAre(per_gib) ==
    LET average == Get(json_file.members, "wipe_details.performance_metrics.average_speed_mbps")
        peak == Get(json_file.members, "wipe_details.performance_metrics.peak_speed_mbps")
        sectors == Get(json_file.members, "wipe_details.performance_metrics.sectors_per_second")
    IN /\ wipe_result.duration_seconds > 0 =>
              average = SpeedFormula(wipe_result.bytes_written,
                                     wipe_result.duration_seconds, per_gib)
       /\ wipe_result.duration_seconds = 0 =>
              /\ average = F64Zero
              /\ sectors = 0
       /\ peak = (IF average = F64Zero THEN F64Zero ELSE F64Over(F64Times(average, 3), 2))

\* C24 as stated: average_speed_mbps equals (bytes_written / 1 GiB) / (duration_seconds /
\* 3600) when duration_seconds > 0 and 0 when it is 0 (sectors_per_second 0 as well), and
\* peak_speed_mbps equals 1.5 times average_speed_mbps; the arithmetic is that of f64.
C24_AverageSpeedIsGiBPerHour == EnhancedIssued => PerformanceMetricsAre(1)

\* C24, amended: average_speed_mbps equals ((bytes_written / 1 GiB) * 1024) /
\* (duration_seconds / 3600), each operation rounded to the nearest f64, when
\* duration_seconds > 0 and 0 when it is 0 (sectors_per_second 0 as well), and
\* peak_speed_mbps equals 1.5 times average_speed_mbps, rounded to the nearest f64.
C24_AverageSpeedIsMiBPerHour == EnhancedIssued => PerformanceMetricsAre(1024)

\* C24 happens: 3 GiB written in 3 seconds. 3 / 3600 is rounded up, so the quotient
\* 3072 / (3 / 3600) is the f64 just below 3686400, 3686400 - 2^-31, and the peak is 1.5
\* times that, rounded: 5529600 - 2^-30.
C24_Witness ==
    /\ EnhancedIssued
    /\ wipe_result.bytes_written = Bytes(3, 0)
    /\ wipe_result.duration_seconds = 3
    /\ Get(json_file.members, "wipe_details.performance_metrics.average_speed_mbps")
           = [m |-> <<32767, 32767, 32767, 224>>, e |-> 31]
    /\ Get(json_file.members, "wipe_details.performance_metrics.average_speed_mbps")
           # F64(3686400, 1)
    /\ Get(json_file.members, "wipe_details.performance_metrics.peak_speed_mbps")
           = [m |-> <<32767, 32767, 24575, 168>>, e |-> 30]

-----------------------------------------------------------------------------
(* Further properties of the certificate protocol, checked under Spec       *)

\* C25: a partially signed certificate is never persisted: whenever either issuer has
\* written a certificate JSON file, verification.hash and signature in it are non-empty,
\* and if the signing key cannot be loaded the issuer returns the error with no file
\* written. (A file is written when fs::write has returned Ok; a write that stops early
\* leaves a cut-off text, which no verifier parses.)
C25_NoPartiallySignedCertificate ==
    /\ [](cpc = "issued" =>
            ((json_file # NoFile /\ ~json_file.cut_off) =>
                 /\ Get(json_file.members, "verification.hash") # <<>>
                 /\ Get(json_file.members, "signature") # <<>>))
    /\ [][(cpc # "issued" /\ cpc' = "issued" /\ private_key_file \notin SigningKeys) =>
              /\ json_file' = NoFile
              /\ issue_outcome' = load_signing_key(private_key_file).err]_vars

\* C25 happens: the basic issuer wrote the JSON file with hash and signature filled and
\* then failed on the PDF.
C25_Witness ==
    /\ cpc = "issued"
    /\ issued_by = "basic"
    /\ issue_outcome = "Io: pdf"
    /\ json_file # NoFile
    /\ Get(json_file.members, "verification.hash") = hash_data(certificate_data)
    /\ DecodeSignature(Get(json_file.members, "signature")).ok

\* C26: the CLI verify command returns success exactly when the VerificationResult has
\* is_valid true; when is_valid is false it returns CertificateVerificationFailed after
\* printing the per-check result. The VerificationResult is the one of the verifier the
\* command builds, CertificateVerifier::new() with or without a key path.
C26_CliSucceedsExactlyWhenValid ==
    (/\ cpc = "verified"
     /\ vresult.ok
     /\ verifier \in VerifiersReading(verifier.public_key_file)) =>
        /\ cli_result.ok <=> vresult.result.is_valid
        /\ cli_result.printed = <<print_result(vresult.result)>>
        /\ ~vresult.result.is_valid =>
               /\ cli_result.err = "Certificate verification failed: Certificate verification failed"
               /\ Len(cli_result.printed) = 1
               /\ cli_result.printed[1][3] = "[x] Certificate is INVALID"
               /\ cli_result.printed[1][6] =
                      "  Signature: " \o (IF vresult.result.signature_valid
                                          THEN "[+] Valid" ELSE "[x] Invalid")
               /\ cli_result.printed[1][7] =
                      "  Hash: " \o (IF vresult.result.hash_valid
                                     THEN "[+] Valid" ELSE "[x] Invalid")
               /\ cli_result.printed[1][8] =
                      "  Compliance: " \o (IF vresult.result.compliance_valid
                                           THEN "[+] Valid" ELSE "[x] Invalid")

\* C26 happens: an enhanced certificate whose signature and hash verify but whose
\* compliance check fails is reported check by check and the command fails.
C26_Witness ==
    /\ cpc = "verified"
    /\ vresult.ok
    /\ verifier \in VerifiersReading(verifier.public_key_file)
    /\ vresult.result.signature_valid
    /\ vresult.result.hash_valid
    /\ ~vresult.result.compliance_valid
    /\ ~vresult.result.is_valid
    /\ ~cli_result.ok
    /\ cli_result.printed # <<>>

-----------------------------------------------------------------------------
(* Two invocations of the engine against one device path: ConcSpec          *)
(* Each .await of secure_erase_with_verification, perform_wipe_operation    *)
(* and multi_pass_wipe is a point where the other invocation may run, so a  *)
(* device operation is modelled by its start and its end.                   *)

ConcInvocations == {1, 2}

\* max_retries of the engines of ConcSpec.
ConcMaxRetries == 2

\* Both invocations are given the same device, an HDD or an SSD of two sectors with TRIM
\* and no hardware erase, and each its own mode.
ConcInit ==
    /\ device \in {d \in EngineDevices :
                       /\ d.size = Bytes(0, 1024)
                       /\ d.device_type \in {"HDD", "SSD"}
                       /\ d.supports_trim
                       /\ ~d.supports_secure_erase}
    /\ \E modes \in [ConcInvocations -> {"Quick", "Full"}] :
         invocation = [i \in ConcInvocations |->
                          [pc |-> "loop", mode |-> modes[i], attempt |-> 0, steps |-> <<>>,
                           pass |-> 0, errors |-> <<>>, sleeps |-> <<>>]]
    /\ in_progress = [i \in ConcInvocations |-> {}]
    /\ wpc = "idle"
    /\ mode = "Quick"
    /\ engine = NoEngine
    /\ attempt = 0
    /\ steps = <<>>
    /\ ops = <<>>
    /\ errors = <<>>
    /\ sleeps = <<>>
    /\ verified_sectors = -1
    /\ outcome = NoOutcome
    /\ CertIdle
    /\ UtilsIdle
    /\ LibraryIdle

\* for attempt in 1..=self.max_retries: invocation i calls perform_wipe_operation.
ConcBeginAttempt(i) ==
    /\ invocation[i].pc = "loop"
    /\ invocation[i].attempt < ConcMaxRetries
    /\ invocation' = [invocation EXCEPT
                         ![i].attempt = @ + 1,
                         ![i].steps = perform_wipe_operation(device, invocation[i].mode),
                         ![i].pass = 0,
                         ![i].pc = "attempt"]
    /\ UNCHANGED <<in_progress, cvars, wvars, uvars, dvars, progress, wipe_cli>>

ConcStartOperation_WithoutAwait(i) ==
    /\ invocation[i].pc \in {"attempt", "operation"}
    /\ invocation[i].steps # <<>>
    /\ in_progress' = [in_progress EXCEPT
                          ![i] = @ \cup {[attempt |-> invocation[i].attempt,
                                          pass |-> invocation[i].pass + 1,
                                          op |-> Head(invocation[i].steps)]}]
    /\ invocation' = [invocation EXCEPT
                         ![i].steps = Tail(@), ![i].pass = @ + 1, ![i].pc = "operation"]
    /\ UNCHANGED <<cvars, wvars, uvars, dvars, progress, wipe_cli>>

ConcStartOperation_DeviceLock(i) ==
    /\ invocation[i].pc = "attempt"
    /\ invocation[i].steps # <<>>
    /\ \A j \in ConcInvocations \ {i} : in_progress[j] = {}
    /\ in_progress' = [in_progress EXCEPT
                          ![i] = @ \cup {[attempt |-> invocation[i].attempt,
                                          pass |-> invocation[i].pass + 1,
                                          op |-> Head(invocation[i].steps)]}]
    /\ invocation' = [invocation EXCEPT
                         ![i].steps = Tail(@), ![i].pass = @ + 1, ![i].pc = "operation"]
    /\ UNCHANGED <<cvars, wvars, uvars, dvars, progress, wipe_cli>>

\* Invocation i calls the next device operation of its attempt (self.overwrite_device(..),
\* self.trim_device(..), ...): the call is made once the previous one was awaited, and it
\* reads nothing but its own arguments.
ConcStartOperation(i) ==
    /\ invocation[i].pc = "attempt"
    /\ invocation[i].steps # <<>>
    /\ in_progress' = [in_progress EXCEPT
                          ![i] = @ \cup {[attempt |-> invocation[i].attempt,
                                          pass |-> invocation[i].pass + 1,
                                          op |-> Head(invocation[i].steps)]}]
    /\ invocation' = [invocation EXCEPT
                         ![i].steps = Tail(@), ![i].pass = @ + 1, ![i].pc = "operation"]
    /\ UNCHANGED <<cvars, wvars, uvars, dvars, progress, wipe_cli>>

\* The operation in progress returns Ok(()) through .await?.
ConcFinishOperation(i) ==
    /\ invocation[i].pc = "operation"
    /\ \E o \in in_progress[i] : in_progress' = [in_progress EXCEPT ![i] = @ \ {o}]
    /\ invocation' = [invocation EXCEPT ![i].pc = "attempt"]
    /\ UNCHANGED <<cvars, wvars, uvars, dvars, progress, wipe_cli>>

\* The operation in progress returns Err(e): `?` ends the attempt and the Err arm of the
\* loop records it.
ConcFailOperation(i) ==
    /\ invocation[i].pc = "operation"
    /\ \E o \in in_progress[i] : in_progress' = [in_progress EXCEPT ![i] = @ \ {o}]
    /\ \E e \in OpErrors :
         invocation' = [invocation EXCEPT
             ![i].errors = RecordFailure(@, invocation[i].attempt, e),
             ![i].steps = <<>>,
             ![i].pc = IF invocation[i].attempt < ConcMaxRetries THEN "backoff" ELSE "loop"]
    /\ UNCHANGED <<cvars, wvars, uvars, dvars, progress, wipe_cli>>

\* tokio::time::sleep(5 s).await between the attempts of invocation i.
ConcBackoff(i) ==
    /\ invocation[i].pc = "backoff"
    /\ invocation' = [invocation EXCEPT
                         ![i].sleeps = Append(@, invocation[i].attempt), ![i].pc = "loop"]
    /\ UNCHANGED <<in_progress, cvars, wvars, uvars, dvars, progress, wipe_cli>>

\* Invocation i leaves the loop: every operation of the attempt returned Ok (break), or
\* the last attempt failed.
ConcLeaveLoop(i) ==
    /\ \/ invocation[i].pc = "attempt" /\ invocation[i].steps = <<>>
       \/ invocation[i].pc = "loop" /\ invocation[i].attempt = ConcMaxRetries
    /\ invocation' = [invocation EXCEPT
                         ![i].pc = IF invocation[i].pc = "attempt" THEN "erased" ELSE "failed"]
    /\ UNCHANGED <<in_progress, cvars, wvars, uvars, dvars, progress, wipe_cli>>

ConcNext ==
    \/ \E i \in ConcInvocations : ConcBeginAttempt(i)
    \/ \E i \in ConcInvocations : ConcStartOperation(i)
    \/ \E i \in ConcInvocations : ConcFinishOperation(i)
    \/ \E i \in ConcInvocations : ConcFailOperation(i)
    \/ \E i \in ConcInvocations : ConcBackoff(i)
    \/ \E i \in ConcInvocations : ConcLeaveLoop(i)

ConcSpec == ConcInit /\ [][ConcNext]_vars

\* C27: within one invocation all device operations are strictly sequential: at most one
\* operation is in progress at any time, an operation starts only when none of the
\* invocation's operations is in progress, and attempt n + 1 starts only when attempt n
\* has no operation in progress and its backoff sleep has run.
C27_OperationsStrictlySequential ==
    /\ [](\A i \in ConcInvocations : Cardinality(in_progress[i]) <= 1)
    /\ [][\A i \in ConcInvocations :
            /\ (in_progress'[i] \ in_progress[i] # {}) => in_progress[i] = {}
            /\ (invocation'[i].attempt # invocation[i].attempt) =>
                   /\ invocation'[i].attempt = invocation[i].attempt + 1
                   /\ in_progress[i] = {}
                   /\ invocation[i].sleeps = [n \in 1..invocation[i].attempt |-> n]]_vars

\* C27 happens: an invocation is in its second attempt, after the backoff of the first,
\* with the second step of the attempt as its only operation in progress.
C27_Witness ==
    \E i \in ConcInvocations :
        /\ invocation[i].attempt = 2
        /\ invocation[i].sleeps = <<1>>
        /\ \E o \in in_progress[i] : o.attempt = 2 /\ o.pass = 2
        /\ Cardinality(in_progress[i]) = 1

\* C28: the engine provides no cross-invocation coordination: an invocation that is about
\* to start a device operation can start it whatever the other invocation has in progress
\* on the same device.
C28_NoCrossInvocationCoordination ==
    \A i \in ConcInvocations :
        (invocation[i].pc = "attempt" /\ invocation[i].steps # <<>>) =>
            ENABLED ConcStartOperation(i)

\* C28 happens: both invocations have an overwrite pass in progress on the one device.
C28_Witness ==
    \A i \in ConcInvocations :
        \E o \in in_progress[i] : o.op \in {Overwrite(Patterns[k]) : k \in 1..Len(Patterns)}

-----------------------------------------------------------------------------
(* Further properties of the wipe engine, checked under WipeSpec            *)

\* C29: for every device size, sizes below 512 bytes and size 0 included, a successful
\* erase followed by post-wipe verification completes and returns a WipeResult: the step
\* an engine with verify_after_wipe takes after a successful attempt ends in "done" with
\* an Ok outcome for the device, never in an abort. (A call that returns the Io error of
\* duration_since has not reached the verification.)
C29_VerificationReturnsForEverySize ==
    [][(wpc = "succeeded" /\ engine.verify_after_wipe /\ wpc' # "clock_error") =>
           /\ wpc' = "done"
           /\ outcome'.ok
           /\ outcome'.result.device = device]_vars

-----------------------------------------------------------------------------
(* Utils::generate_filename: src/src/utils.rs, UtilsSpec                    *)

\* Seconds the clock advances and calls made in one behaviour.
MaxTicks == 3
MaxCalls == 3

\* format!("{}_{:016X}.{}", prefix, timestamp, extension)
generate_filename(prefix, extension, timestamp) ==
    prefix \o "_" \o HexPadded(timestamp, 16) \o "." \o extension

\* The largest total of a ProgressBar and the largest value given to update.
MaxTotal == 2
MaxCurrent == 3

\* ProgressBar::display: percentage = current / total * 100.0 and filled = (percentage /
\* 100.0 * 50.0) as usize, a saturating cast (NaN gives 0, infinity usize::MAX); then
\* repeat(filled) and repeat(50 - filled). The call panics when filled exceeds the width
\* of 50: on the subtraction with overflow checks, on the capacity of the repeated string
\* without them. Ok(filled) or the panic.
\* The four f64 operations are computed as IEEE 754 binary64 computes them.
display(total, current) ==
    LET Whole(cells) == Shr(cells.m, cells.e).q
        AsUsize(whole) == IF Len(whole) > 1 THEN 51 ELSE IF whole = <<>> THEN 0 ELSE whole[1]
        Bar(filled) == IF filled > 50 THEN [ok |-> FALSE] ELSE [ok |-> TRUE, filled |-> filled]
    IN Bar(IF total = 0 THEN (IF current = 0 THEN 0 ELSE 51)
           ELSE IF current = 0 THEN 0
           ELSE AsUsize(Whole(F64Times(F64Over(F64Times(F64(current, total), 100), 100), 50))))

\* ProgressBar::new(total) for the bar; last_update and increments tell what was called.
UtilsInit ==
    /\ clock = StartTime
    /\ filenames = <<>>
    /\ \E total \in 0..MaxTotal :
         progress = [total |-> total, current |-> 0, width |-> 50, panicked |-> FALSE,
                     last_update |-> 0, increments |-> 0]
    /\ dm = NoResult
    /\ dm_result = NoResult
    /\ wipe_cli = NoResult
    /\ CertIdle
    /\ EngineIdle
    /\ ConcIdle

\* One second passes on the system clock.
Tick ==
    /\ clock < StartTime + MaxTicks
    /\ clock' = clock + 1
    /\ UNCHANGED <<filenames, progress, cvars, wvars, xvars, dvars, wipe_cli>>

\* A call of Utils::generate_filename(prefix, extension): it reads SystemTime::now() in
\* whole seconds. The call is recorded with its arguments and the String it returned.
GenerateFilename ==
    /\ Len(filenames) < MaxCalls
    /\ \E prefix \in {"test", "wipe_certificate"}, extension \in {"txt", "json"} :
         filenames' = Append(filenames,
                             [prefix |-> prefix, extension |-> extension,
                              filename |-> generate_filename(prefix, extension, clock)])
    /\ UNCHANGED <<clock, progress, cvars, wvars, xvars, dvars, wipe_cli>>

\* progress_bar.update(current): self.current = current; self.display().
ProgressUpdate ==
    /\ ~progress.panicked
    /\ \E current \in 0..MaxCurrent :
         progress' = [progress EXCEPT
                         !.current = current,
                         !.last_update = current,
                         !.increments = 0,
                         !.panicked = ~display(progress.total, current).ok]
    /\ UNCHANGED <<clock, filenames, cvars, wvars, xvars, dvars, wipe_cli>>

\* progress_bar.increment(): self.current += 1; self.display().
ProgressIncrement ==
    /\ ~progress.panicked
    /\ progress.current < MaxCurrent
    /\ progress' = [progress EXCEPT
                       !.current = @ + 1,
                       !.increments = @ + 1,
                       !.panicked = ~display(progress.total, progress.current + 1).ok]
    /\ UNCHANGED <<clock, filenames, cvars, wvars, xvars, dvars, wipe_cli>>

UtilsNext == Tick \/ GenerateFilename \/ ProgressUpdate \/ ProgressIncrement

UtilsSpec == UtilsInit /\ [][UtilsNext]_vars

\* C30: two successive calls to Utils::generate_filename with the same prefix and
\* extension return different filenames.
C30_SuccessiveFilenamesDiffer ==
    \A k \in 1..(Len(filenames) - 1) :
        (/\ filenames[k].prefix = filenames[k + 1].prefix
         /\ filenames[k].extension = filenames[k + 1].extension)
        => filenames[k].filename # filenames[k + 1].filename

-----------------------------------------------------------------------------
(* DeviceManager: src/src/core/device_manager.rs, DeviceManagerSpec         *)

\* The device nodes of /dev that is_storage_device accepts. read_dir yields each entry
\* once, in any order.
DevPaths == {"/dev/sdx", "/dev/sdy", "/dev/nvme0n1"}

\* The number of storage nodes /dev holds is at most MaxScanned.
MaxScanned == 2

\* detect_hidden_areas_linux: empty unless `hdparm -N` succeeds and its output contains
\* "HPA"; then the one area the code pushes, with start_lba and size 0.
DetectedHiddenAreas == {
    <<>>,
    <<[area_type |-> "HPA", start_lba |-> 0, size |-> 0,
       description |-> "Host Protected Area"]>> }

\* What analyze_linux_device returns for a node: the name is the file name, the type is
\* NVMe for /dev/nvme*, and for /dev/sd* SSD or HDD by the rotational flag; the size is
\* what lsblk prints, supports_secure_erase whether the output of `hdparm -I` contains
\* "Security:" and "supported", supports_trim what discard_granularity holds; model and
\* serial are Some when a line of that output begins with "Model Number:" or
\* "Serial Number:", each on its own; hidden_areas is what detect_hidden_areas_linux
\* returns.
ScannedDevices ==
    LET node(p, file_name, types) == {
            [path |-> p, name |-> file_name, size |-> s, device_type |-> t,
             model |-> mo, serial |-> sn, supports_secure_erase |-> se,
             supports_trim |-> tr, hidden_areas |-> ha] :
            s \in EngineSizes, t \in types, se \in BOOLEAN, tr \in BOOLEAN,
            mo \in {<<>>, <<"FOO">>}, sn \in {<<>>, <<"BAR">>},
            ha \in DetectedHiddenAreas }
    IN node("/dev/sdx", "sdx", {"HDD", "SSD"})
       \cup node("/dev/sdy", "sdy", {"HDD", "SSD"})
       \cup node("/dev/nvme0n1", "nvme0n1", {"NVMe"})

\* The errors scan_devices returns with `?`: read_dir, an entry of it or a Command that
\* cannot be spawned (lsblk, hdparm -I); the file name of an accepted entry that is not
\* UTF-8; lsblk exiting with failure; and a size that is not a number.
ScanErrors == {
    [kind |-> "Io", detail |-> "No such file or directory (os error 2)"],
    [kind |-> "DeviceNotFound", detail |-> "Invalid device path"],
    [kind |-> "DeviceNotFound", detail |-> "Failed to get device size"],
    [kind |-> "DeviceNotFound", detail |-> "Invalid size format"] }

filter_by_type_FirstMatchOnly(devices, device_type) ==
    LET matching == SelectSeq(devices, LAMBDA d : d.device_type = device_type)
    IN IF matching = <<>> THEN <<>> ELSE <<Head(matching)>>

\* self.devices.iter().filter(|d| d.device_type == device_type).collect()
filter_by_type(devices, device_type) ==
    SelectSeq(devices, LAMBDA d : d.device_type = device_type)

\* self.devices.iter().filter(|d| d.supports_secure_erase).collect()
get_secure_erase_devices(devices) ==
    SelectSeq(devices, LAMBDA d : d.supports_secure_erase)

\* DeviceManager::new()
DeviceManagerInit ==
    /\ dm = [devices |-> <<>>, last_scan |-> <<>>]
    /\ dm_result = NoResult
    /\ progress = NoResult
    /\ wipe_cli = NoResult
    /\ CertIdle
    /\ EngineIdle
    /\ ConcIdle
    /\ UtilsIdle

\* scan_devices is between its first and its last statement.
Scanning ==
    /\ dm_result # NoResult
    /\ dm_result.call = "scan_devices"
    /\ dm_result.pending

\* scan_devices begins: self.devices.clear(). The &mut self borrow ends every
\* Vec<&StorageDevice> an earlier query returned, and no query runs before it returns.
ScanDevices ==
    /\ ~Scanning
    /\ dm' = [dm EXCEPT !.devices = <<>>]
    /\ dm_result' = [call |-> "scan_devices", pending |-> TRUE]
    /\ UNCHANGED <<cvars, wvars, xvars, uvars, progress, wipe_cli>>

\* The loop of scan_linux_devices: the next entry of /dev is analysed and pushed.
ScanPush ==
    /\ Scanning
    /\ Len(dm.devices) < MaxScanned
    /\ \E d \in ScannedDevices :
         /\ \A n \in DOMAIN dm.devices : dm.devices[n].path # d.path
         /\ dm' = [dm EXCEPT !.devices = Append(@, d)]
    /\ UNCHANGED <<dm_result, cvars, wvars, xvars, uvars, progress, wipe_cli>>

\* A `?` of the scan returns an error: the devices pushed so far stay in the list and
\* last_scan keeps the value it had.
ScanFails ==
    /\ Scanning
    /\ \E e \in ScanErrors :
         dm_result' = [call |-> "scan_devices", pending |-> FALSE,
                       result |-> [ok |-> FALSE, kind |-> e.kind, detail |-> e.detail]]
    /\ UNCHANGED <<dm, cvars, wvars, xvars, uvars, progress, wipe_cli>>

\* The platform scan returned Ok: self.last_scan = Some(now) and Ok(()).
ScanReturns ==
    /\ Scanning
    /\ dm' = [dm EXCEPT !.last_scan = <<StartTime>>]
    /\ dm_result' = [call |-> "scan_devices", pending |-> FALSE, result |-> [ok |-> TRUE]]
    /\ UNCHANGED <<cvars, wvars, xvars, uvars, progress, wipe_cli>>

\* device_manager.filter_by_type(device_type)
FilterByType ==
    /\ ~Scanning
    /\ \E device_type \in DeviceTypes :
         dm_result' = [call |-> "filter_by_type", device_type |-> device_type,
                       devices |-> filter_by_type(dm.devices, device_type)]
    /\ UNCHANGED <<dm, cvars, wvars, xvars, uvars, progress, wipe_cli>>

\* device_manager.get_secure_erase_devices()
GetSecureEraseDevices ==
    /\ ~Scanning
    /\ dm_result' = [call |-> "get_secure_erase_devices", device_type |-> "",
                     devices |-> get_secure_erase_devices(dm.devices)]
    /\ UNCHANGED <<dm, cvars, wvars, xvars, uvars, progress, wipe_cli>>

DeviceManagerNext ==
    \/ ScanDevices
    \/ ScanPush
    \/ ScanFails
    \/ ScanReturns
    \/ FilterByType
    \/ GetSecureEraseDevices

DeviceManagerSpec == DeviceManagerInit /\ [][DeviceManagerNext]_vars

\* C31: for any device list held by a DeviceManager, filter_by_type(t) returns exactly the
\* devices whose device_type equals t and get_secure_erase_devices exactly those with
\* supports_secure_erase true, both in list order (the j-th device returned is the j-th
\* matching device of the list), and neither call changes the device list or last_scan.
C31_FiltersReturnMatchesInOrderAndChangeNothing ==
    /\ []((dm_result # NoResult /\ dm_result.call # "scan_devices") =>
            LET matches == {k \in 1..Len(dm.devices) :
                               IF dm_result.call = "filter_by_type"
                               THEN dm.devices[k].device_type = dm_result.device_type
                               ELSE dm.devices[k].supports_secure_erase}
            IN /\ Len(dm_result.devices) = Cardinality(matches)
               /\ \A j \in 1..Len(dm_result.devices) :
                     \E k \in matches :
                         /\ Cardinality({m \in matches : m <= k}) = j
                         /\ dm_result.devices[j] = dm.devices[k])
    /\ [][(dm_result' # dm_result /\ dm_result'.call # "scan_devices") => dm' = dm]_vars

\* C31 happens: the scan found two SSDs, the first of them with a hidden area, and failed
\* after them, so last_scan is unset; filter_by_type(SSD) returned the two devices, which
\* differ, in the order of the list.
C31_Witness ==
    /\ dm_result # NoResult
    /\ dm_result.call = "filter_by_type"
    /\ dm_result.device_type = "SSD"
    /\ Len(dm.devices) = 2
    /\ dm.devices[1].hidden_areas # <<>>
    /\ dm.devices[1].path = "/dev/sdy"
    /\ dm.devices[2].path = "/dev/sdx"
    /\ dm_result.devices = <<dm.devices[1], dm.devices[2]>>
    /\ dm.last_scan = <<>>

-----------------------------------------------------------------------------
(* Further properties of the utilities, checked under UtilsSpec             *)

\* C32: for every total (0 included) and every sequence of ProgressBar update and
\* increment calls, each call completes without failing and leaves current equal to the
\* value given to the last update plus the number of increments made after it, also when
\* current exceeds total.
C32_ProgressCallsNeverFail ==
    /\ ~progress.panicked
    /\ progress.current = progress.last_update + progress.increments

-----------------------------------------------------------------------------
(* Properties of the retry loop, checked under WipeSpec                     *)

\* C33: in every execution of secure_erase_with_verification the number of erase attempts
\* never exceeds max_retries, no attempt is made after the first successful one, and with
\* max_retries = 0 no erase operation is performed at all and the call returns WipeFailed.
C33_AttemptsBoundedByMaxRetries ==
    /\ [](wpc # "idle" =>
            /\ attempt <= engine.max_retries
            /\ engine.max_retries = 0 =>
                  /\ attempt = 0 /\ ops = <<>> /\ steps = <<>>
                  /\ wpc \in {"loop", "failed"}
                  /\ wpc = "failed" => (~outcome.ok /\ outcome.err = WipeFailed(0)))
    /\ [][/\ wpc \in {"succeeded", "done", "clock_error", "panicked"} =>
                (attempt' = attempt /\ ops' = ops /\ steps' = <<>>)
          /\ attempt' # attempt => (attempt' = attempt + 1 /\ wpc = "loop")
          /\ (wpc = "loop" /\ engine.max_retries = 0) => wpc' = "failed"]_vars

\* C33 happens: an engine with max_retries = 0 returned WipeFailed with no attempt made.
C33_Witness ==
    /\ wpc = "failed"
    /\ engine.max_retries = 0
    /\ attempt = 0
    /\ ops = <<>>
    /\ outcome = [ok |-> FALSE, err |-> WipeFailed(0)]

\* C34: when an attempt fails part-way through a multi-step procedure, the next attempt
\* restarts the whole procedure from its first step: every attempt begins with nothing
\* done and the complete procedure of the device and mode still to run, whatever the
\* attempt before it had completed.
C34_NextAttemptRestartsTheProcedure ==
    [][attempt' # attempt =>
          /\ ops' = <<>>
          /\ steps' = perform_wipe_operation(device, mode)
          /\ (attempt >= 1 => (CurrentAttemptFailed /\ steps = <<>>))]_vars

\* C34 happens: the first attempt on an NVMe device in Full mode failed at the overwrite
\* after the format, and the second attempt ran the format again and has the overwrite
\* to run.
C34_Witness ==
    /\ wpc = "running"
    /\ attempt = 2
    /\ Len(errors) = 1
    /\ device.device_type = "NVMe"
    /\ mode = "Full"
    /\ ops = <<NvmeFormatSecure>>
    /\ steps = <<Overwrite("0xFF")>>

\* C35: whenever a returned WipeResult has verification_passed = true, post-wipe sampling
\* was performed in that invocation and reached a ratio of at least 0.95, for every
\* engine configuration, verify_after_wipe = false included.
C35_PassedOnlyAfterSampling ==
    (wpc = "done" /\ outcome.ok /\ outcome.result.verification_passed) =>
        /\ verified_sectors # -1
        /\ verified_sectors * 100 >= 95 * SampleCount

-----------------------------------------------------------------------------
(* CLI wipe command: src/src/cli/mod.rs wipe_device, CliSpec                *)
(* The command parses the mode, scans and finds the device, runs the engine *)
(* (the actions of WipeSpec, on the engine AdvancedWipeEngine::new() gives) *)
(* and, if asked to, issues the enhanced certificate (IssueEnhancedWith);   *)
(* the generate-keys command may run at any moment.                         *)

\* wipe_device(device_path, mode_str, generate_certificate, output_dir) is called.
\* private_key.pem is read only if a certificate is asked for; it then holds a key or is
\* missing.
CliInit ==
    /\ \E device_path \in {"/dev/sdx", "/dev/sdz"},
          mode_str \in {"quick", "Full", "ADVANCED", "secure"},
          certificate \in BOOLEAN :
         wipe_cli = [pc |-> "start", device_path |-> device_path, mode_str |-> mode_str,
                     generate_certificate |-> certificate, exit |-> NoOutcome]
    /\ dm = NoResult
    /\ dm_result = NoResult
    /\ progress = NoResult
    /\ cpc = "idle"
    /\ wipe_result = NoResult
    /\ private_key_file \in IF wipe_cli.generate_certificate THEN {"sk1", NoKey} ELSE {NoKey}
    /\ certificate_data = NoData
    /\ json_file = NoFile
    /\ issued_by = "none"
    /\ issue_outcome = "none"
    /\ tamper = <<>>
    /\ verifier = NoVerifier
    /\ vresult = NoResult
    /\ cli_result = NoResult
    /\ legacy_result = NoResult
    /\ EngineIdle
    /\ ConcIdle
    /\ UtilsIdle

\* wipe_device up to the call of the engine: the match on mode_str.to_lowercase(), then
\* DeviceManager::new(), scan_devices().await? and find_device (the first device of the
\* list with the path), then AdvancedWipeEngine::new(). The manager is a local of the
\* command; what the scan finds, or the error it fails with, is the environment's.
CliStartWipe ==
    /\ wipe_cli.pc = "start"
    /\ LET lower == CASE wipe_cli.mode_str = "Full" -> "full"
                      [] wipe_cli.mode_str = "ADVANCED" -> "advanced"
                      [] OTHER -> wipe_cli.mode_str
           parsed == CASE lower = "quick" -> <<"Quick">>
                       [] lower = "full" -> <<"Full">>
                       [] lower = "advanced" -> <<"Advanced">>
                       [] OTHER -> <<>>
       IN IF parsed = <<>>
          THEN /\ wipe_cli' = [wipe_cli EXCEPT
                                  !.pc = "exited",
                                  !.exit = [ok |-> FALSE, kind |-> "InvalidEraseMode",
                                            detail |-> wipe_cli.mode_str]]
               /\ UNCHANGED wvars
          ELSE \/ \E e \in ScanErrors :
                    /\ wipe_cli' = [wipe_cli EXCEPT
                                       !.pc = "exited",
                                       !.exit = [ok |-> FALSE, kind |-> e.kind,
                                                 detail |-> e.detail]]
                    /\ UNCHANGED wvars
               \/ \E n \in 0..MaxScanned :
                  \E devices \in [1..n -> ScannedDevices] :
                    LET matching == SelectSeq(devices,
                                              LAMBDA d : d.path = wipe_cli.device_path)
                    IN /\ \A a, b \in 1..n : devices[a].path = devices[b].path => a = b
                       /\ IF matching = <<>>
                          THEN /\ wipe_cli' = [wipe_cli EXCEPT
                                                  !.pc = "exited",
                                                  !.exit = [ok |-> FALSE,
                                                            kind |-> "DeviceNotFound",
                                                            detail |-> wipe_cli.device_path]]
                               /\ UNCHANGED wvars
                          ELSE /\ wipe_cli' = [wipe_cli EXCEPT !.pc = "erasing"]
                               /\ device' = Head(matching)
                               /\ mode' = parsed[1]
                               /\ engine' = [verify_after_wipe |-> TRUE,
                                             generate_hash |-> TRUE, max_retries |-> 3]
                               /\ wpc' = "loop"
                               /\ UNCHANGED <<attempt, steps, ops, errors, sleeps,
                                              verified_sectors, outcome>>
    /\ UNCHANGED <<dvars, cvars, xvars, uvars, progress>>

CliFinishWipe_CertificateAlways ==
    /\ wipe_cli.pc = "erasing"
    /\ wpc \in {"done", "failed", "clock_error", "panicked"}
    /\ IF outcome.ok
       THEN /\ wipe_result' = outcome.result
            /\ cpc' = "start"
            /\ wipe_cli' = [wipe_cli EXCEPT !.pc = "issuing"]
       ELSE /\ wipe_cli' = [wipe_cli EXCEPT
                               !.pc = "exited",
                               !.exit = [ok |-> FALSE, kind |-> outcome.err.kind,
                                         detail |-> outcome.err.lines[1]]]
            /\ UNCHANGED <<cpc, wipe_result>>
    /\ UNCHANGED <<private_key_file, certificate_data, json_file, issued_by, issue_outcome,
                   tamper, verifier, vresult, cli_result, legacy_result,
                   wvars, xvars, uvars, dvars, progress>>

\* secure_erase_with_verification(device, mode).await? has ended: an error (or the panic)
\* ends the command; a WipeResult is displayed and, if generate_certificate, handed to
\* generate_enhanced_certificate.
CliFinishWipe ==
    /\ wipe_cli.pc = "erasing"
    /\ wpc \in {"done", "failed", "clock_error", "panicked"}
    /\ IF outcome.ok
       THEN /\ wipe_result' = outcome.result
            /\ IF wipe_cli.generate_certificate
               THEN /\ cpc' = "start"
                    /\ wipe_cli' = [wipe_cli EXCEPT !.pc = "issuing"]
               ELSE /\ wipe_cli' = [wipe_cli EXCEPT !.pc = "exited", !.exit = [ok |-> TRUE]]
                    /\ UNCHANGED cpc
       ELSE /\ wipe_cli' = [wipe_cli EXCEPT
                               !.pc = "exited",
                               !.exit = [ok |-> FALSE, kind |-> outcome.err.kind,
                                         detail |-> outcome.err.lines[1]]]
            /\ UNCHANGED <<cpc, wipe_result>>
    /\ UNCHANGED <<private_key_file, certificate_data, json_file, issued_by, issue_outcome,
                   tamper, verifier, vresult, cli_result, legacy_result,
                   wvars, xvars, uvars, dvars, progress>>

\* generate_enhanced_certificate(..).await? has returned: its error ends the command,
\* otherwise the two paths are printed and the command returns Ok(()).
CliExit ==
    /\ wipe_cli.pc = "issuing"
    /\ cpc = "issued"
    /\ wipe_cli' = [wipe_cli EXCEPT
                       !.pc = "exited",
                       !.exit = IF issue_outcome = "Ok" THEN [ok |-> TRUE]
                                ELSE [ok |-> FALSE, kind |-> "Issuance",
                                      detail |-> issue_outcome]]
    /\ UNCHANGED <<cvars, wvars, xvars, uvars, dvars, progress>>

\* The samples of the command's run read as erased all of them (what the placeholder of
\* the source counts), or just as many as the threshold asks for, or one fewer.
CliSampleCounts == {SampleCount, (95 * SampleCount) \div 100, (95 * SampleCount) \div 100 - 1}

CliNext ==
    \/ CliStartWipe
    \/ BeginAttempt
    \/ OpSucceeds
    \/ OpFails
    \/ Backoff
    \/ AttemptSucceeds
    \/ AllAttemptsFailed
    \/ ClockWentBack
    \/ VerifyAndReturnWith(CliSampleCounts)
    \/ VerifyPanics
    \/ CliFinishWipe
    \/ GenerateKeyPair
    \/ IssueEnhancedWith({EnhancedCertificateGenerator("Secure Disk Erasure Tool",
                                                       "Your Organization")})
    \/ CliExit

CliSpec == CliInit /\ [][CliNext]_vars

\* C36: in the CLI wipe command a certificate is issued only when requested and only after
\* secure_erase_with_verification has returned a WipeResult: when the engine returns
\* WipeFailed, or the mode string is invalid, or the device is not found, no certificate
\* file is written, and no erase operation starts before the mode has been parsed and the
\* device found.
C36_CertificateOnlyAfterWipeResult ==
    /\ (cpc # "idle" \/ json_file # NoFile) =>
          /\ wipe_cli.generate_certificate
          /\ wpc = "done"
          /\ outcome.ok
          /\ wipe_result = outcome.result
    /\ (wipe_cli.pc = "exited" /\ ~wipe_cli.exit.ok
            /\ wipe_cli.exit.kind \in {"WipeFailed", "InvalidEraseMode", "DeviceNotFound"}) =>
          /\ json_file = NoFile
          /\ cpc = "idle"
    /\ (wpc # "idle") =>
          /\ wipe_cli.pc # "start"
          /\ mode \in EraseModes
          /\ wipe_cli.mode_str \in {"quick", "Full", "ADVANCED"}
          /\ device \in ScannedDevices
          /\ device.path = wipe_cli.device_path

\* C36 happens: all three attempts failed, the command ended with WipeFailed although a
\* certificate was requested, and no certificate file was written.
C36_Witness ==
    /\ wipe_cli.pc = "exited"
    /\ wipe_cli.generate_certificate
    /\ wipe_cli.exit = [ok |-> FALSE, kind |-> "WipeFailed",
                        detail |-> "All 3 wipe attempts failed"]
    /\ attempt = 3
    /\ json_file = NoFile

-----------------------------------------------------------------------------
(* Properties of issuance and of the two verifiers, checked under Spec      *)

\* C37: enhanced issuance is all-or-nothing: if generate_enhanced_certificate returns an
\* error (key load, serialization, JSON write or PDF rendering failure), no certificate
\* JSON written by that call remains at json_path.
C37_FailedIssuanceLeavesNoJson ==
    (issued_by = "enhanced" /\ issue_outcome \notin {"none", "Ok"}) => json_file = NoFile

\* C38: for every basic certificate and verifying key that loads, the legacy
\* certificates::verify_certificate and CertificateVerifier::verify_certificate give the
\* same signature verdict: legacy returns true exactly when CertificateVerifier reports
\* signature_valid true.
C38_LegacyAndVerifierAgreeOnSignature ==
    (/\ cpc = "verified"
     /\ vresult.ok
     /\ vresult.schema = "basic"
     /\ load_verifying_key(verifier.public_key_file).ok) =>
        ((legacy_result.ok /\ legacy_result.valid) <=> vresult.result.signature_valid)

-----------------------------------------------------------------------------
(* The certificate of the CLI wipe command against the engine's run, CliSpec *)

\* C39: wipe_details.passes_completed in an enhanced certificate equals the number of
\* overwrite passes the engine actually executed in the successful attempt for that
\* device type, mode and capability flags.
C39_PassesCompletedCountsOverwrites ==
    (issued_by = "enhanced" /\ json_file # NoFile /\ ~json_file.cut_off) =>
        Get(json_file.members, "wipe_details.passes_completed")
            = Cardinality({i \in DOMAIN ops :
                             \E k \in DOMAIN Patterns : ops[i] = Overwrite(Patterns[k])})

====
